---- MODULE Spec2Model ----
(***************************************************************************)
(* Statement field-extraction engine of Parse-Statement-PDF.               *)
(*                                                                         *)
(* Modelled code:                                                          *)
(*   src/extract_all_statements_final_Version2.py  WFAParser,              *)
(*       BOKFinancialParser, CombinedStatementParser                       *)
(*   src/extract_bok_statements.py  extract_beneficiary_and_account,       *)
(*       BOKFinancialParser (the variant with a Beneficiary column)        *)
(*                                                                         *)
(* Text is modelled character by character: a Python str is a TLA+ string, *)
(* read with SubSeq; every regular expression of the code is an operator   *)
(* that matches at a position exactly as the expression does.  An optional *)
(* value (Optional[str], Optional[float]) is None == << >> or Some(x) ==   *)
(* <<x>>.  A float parsed from a captured numeral is kept as its canonical *)
(* decimal numeral ("1234.56"), so comparisons with 0 and with the ceiling *)
(* 10000000000 are exact and need no machine integer of that size; where   *)
(* floats are added (the totals of save_to_excel) they are binary floats   *)
(* of 53 digits, rounded after every addition as the machine rounds.       *)
(***************************************************************************)
EXTENDS Integers, Sequences, FiniteSets, TLC

VARIABLES
    folder_exists,  \* self.pdf_folder.exists()
    folder,         \* the files of the folder: a set of documents
    calls,          \* how many times process_all_pdfs was called
    pdf_files,      \* local pdf_files of process_all_pdfs: sorted documents
    bok_files,      \* local bok_files of BOKStatementParser.process_all_pdfs
    idx,            \* position of the for loop of process_all_pdfs
    results,        \* self.results
    pc,             \* where process_all_pdfs is
    report,         \* what save_to_excel computed, None before it ran
    input,          \* argument of the function applied (function harness)
    output          \* its result, None before it was applied

vars ==
    <<folder_exists, folder, calls, pdf_files, bok_files, idx, results, pc, report, input,
      output>>

-----------------------------------------------------------------------------
(* Optional values *)

None == << >>

Some(x) == <<x>>

\* Python truthiness of an Optional[str]: None and '' are falsy
Truthy(t) == t # None /\ t[1] # ""

-----------------------------------------------------------------------------
(* Characters and strings *)

Digit == {"0", "1", "2", "3", "4", "5", "6", "7", "8", "9"}

DigitComma == Digit \cup {","}

\* the characters \s matches, among those the model's texts use
Whitespace == {" ", "\n", "\t"}

UpperCase == "ABCDEFGHIJKLMNOPQRSTUVWXYZ"

LowerCase == "abcdefghijklmnopqrstuvwxyz"

\* the character of s at position i (1-based), "" outside s
Ch(s, i) == IF i >= 1 /\ i <= Len(s) THEN SubSeq(s, i, i) ELSE ""

UpperSet == {SubSeq(UpperCase, k, k) : k \in 1..26}

LowerSet == {SubSeq(LowerCase, k, k) : k \in 1..26}

LowerMap == [c \in UpperSet |-> SubSeq(LowerCase, CHOOSE k \in 1..26 : SubSeq(UpperCase, k, k) = c,
                                                 CHOOSE k \in 1..26 : SubSeq(UpperCase, k, k) = c)]

UpperMap == [c \in LowerSet |-> SubSeq(UpperCase, CHOOSE k \in 1..26 : SubSeq(LowerCase, k, k) = c,
                                                 CHOOSE k \in 1..26 : SubSeq(LowerCase, k, k) = c)]

\* str.lower() of one character
Lower(c) == IF c \in UpperSet THEN LowerMap[c] ELSE c

\* str.upper() of one character
Upper(c) == IF c \in LowerSet THEN UpperMap[c] ELSE c

\* the characters \w matches, among those the model's texts use
WordChar == UpperSet \cup LowerSet \cup Digit \cup {"_"}

\* the literal lit stands in s at position i (case-sensitive)
HasAt(s, i, lit) ==
    /\ i >= 1
    /\ i + Len(lit) - 1 <= Len(s)
    /\ SubSeq(s, i, i + Len(lit) - 1) = lit

\* the literal stands in s at position i under re.IGNORECASE;
\* lit is given in lower case
HasAtI(s, i, lit) ==
    /\ i >= 1
    /\ i + Len(lit) - 1 <= Len(s)
    /\ \A k \in 1..Len(lit) : Lower(Ch(s, i + k - 1)) = Ch(lit, k)

\* Python's  lit in s
Contains(s, lit) == \E i \in 1..Len(s) : HasAt(s, i, lit)

RECURSIVE SkipWhile(_, _, _)
\* the first position >= i of s whose character is not in class C
\* (Len(s)+1 if there is none): what a greedy C* consumes from i
SkipWhile(s, i, C) ==
    IF i <= Len(s) /\ Ch(s, i) \in C THEN SkipWhile(s, i + 1, C) ELSE i

Min(S) == CHOOSE m \in S : \A n \in S : m <= n

Max(S) == CHOOSE m \in S : \A n \in S : m >= n

-----------------------------------------------------------------------------
(* Regular expressions of the value extractors.  Each operator gives the   *)
(* text of group 1 of a match that STARTS at position i, None if the       *)
(* expression does not match there.  Every \s* and [\d,]+ of these         *)
(* expressions is followed by an element that cannot start with a          *)
(* character of its class, so the greedy run is the only way to match.     *)

\* ([\d,]+\.\d{2}) at position i
Amount(s, i) ==
    LET e == SkipWhile(s, i, DigitComma)
    IN  IF e > i /\ Ch(s, e) = "." /\ Ch(s, e + 1) \in Digit /\ Ch(s, e + 2) \in Digit
        THEN Some(SubSeq(s, i, e + 2))
        ELSE None

\* the position after a match of [\d,]+\.\d{2} at i, 0 if there is none
AmountEnd(s, i) == IF Amount(s, i) = None THEN 0 ELSE i + Len(Amount(s, i)[1])

\* r'Closingvalue\s*\$\s*([\d,]+\.\d{2})', re.IGNORECASE
RE_Closingvalue(s, i) ==
    IF ~HasAtI(s, i, "closingvalue") THEN None
    ELSE LET j == SkipWhile(s, i + 12, Whitespace)
         IN  IF Ch(s, j) # "$" THEN None
             ELSE Amount(s, SkipWhile(s, j + 1, Whitespace))

\* r'Closing\s*value\s*\$\s*([\d,]+\.\d{2})', re.IGNORECASE
RE_Closing_value(s, i) ==
    IF ~HasAtI(s, i, "closing") THEN None
    ELSE LET j == SkipWhile(s, i + 7, Whitespace)
         IN  IF ~HasAtI(s, j, "value") THEN None
             ELSE LET k == SkipWhile(s, j + 5, Whitespace)
                  IN  IF Ch(s, k) # "$" THEN None
                      ELSE Amount(s, SkipWhile(s, k + 1, Whitespace))

\* r'Total\s+([\d,]+\.\d{2})' at i, without what precedes Total
TotalAmount(s, i) ==
    IF ~HasAtI(s, i, "total") THEN None
    ELSE LET j == SkipWhile(s, i + 5, Whitespace)
         IN  IF j = i + 5 THEN None ELSE Amount(s, j)

\* r'AccruedIncome\s+[\d,]+\.\d{2}\s+Total\s+([\d,]+\.\d{2})',
\* re.DOTALL | re.IGNORECASE
RE_AccruedIncome_Total(s, i) ==
    IF ~HasAtI(s, i, "accruedincome") THEN None
    ELSE LET j == SkipWhile(s, i + 13, Whitespace)
             e == AmountEnd(s, j)
             k == SkipWhile(s, e, Whitespace)
         IN  IF j = i + 13 \/ e = 0 \/ k = e THEN None
             ELSE TotalAmount(s, k)

\* the negative lookbehind (?<!word) at position i under re.IGNORECASE
NotPrecededBy(s, i, word) == ~HasAtI(s, i - Len(word), word)

\* r'(?<!Principal)(?<!Income)(?<!Gain)(?<!Loss)Total\s+([\d,]+\.\d{2})',
\* re.DOTALL | re.IGNORECASE
RE_Standalone_Total(s, i) ==
    IF /\ NotPrecededBy(s, i, "principal")
       /\ NotPrecededBy(s, i, "income")
       /\ NotPrecededBy(s, i, "gain")
       /\ NotPrecededBy(s, i, "loss")
    THEN TotalAmount(s, i)
    ELSE None

\* r'\bTotal\s+([\d,]+\.\d{2})', re.DOTALL | re.IGNORECASE
\* (extract_bok_statements.py): \b before the word character T
RE_Word_Total(s, i) ==
    IF Ch(s, i - 1) \notin WordChar THEN TotalAmount(s, i) ELSE None

\* the patterns lists, in list order
WFA_patterns == <<"Closingvalue", "Closing value">>

\* the two patterns with the looser one first
BOK_patterns_loose_first == <<"Standalone Total", "AccruedIncome Total">>

BOK_patterns == <<"AccruedIncome Total", "Standalone Total">>

\* the list of BOKFinancialParser.extract_total_value of extract_bok_statements.py
BOKS_patterns == <<"AccruedIncome Total", "Word Total">>

MatchAt(p, s, i) ==
    CASE p = "Closingvalue" -> RE_Closingvalue(s, i)
      [] p = "Closing value" -> RE_Closing_value(s, i)
      [] p = "AccruedIncome Total" -> RE_AccruedIncome_Total(s, i)
      [] p = "Standalone Total" -> RE_Standalone_Total(s, i)
      [] p = "Word Total" -> RE_Word_Total(s, i)

RECURSIVE search_from(_, _, _)
\* the scan of re.search: the match at the first position >= i that has one
search_from(p, s, i) ==
    IF i > Len(s) THEN None
    ELSE IF MatchAt(p, s, i) # None THEN MatchAt(p, s, i)
    ELSE search_from(p, s, i + 1)

\* re.search(p, s).group(1): group 1 of the leftmost match, None if no match
re_search(p, s) == search_from(p, s, 1)

-----------------------------------------------------------------------------
(* float(match.group(1).replace(',', '')) *)

RECURSIVE Remove(_, _)
\* s.replace(sub, ''): every non-overlapping occurrence removed, left to right
Remove(s, sub) ==
    IF Len(s) < Len(sub) \/ s = "" THEN s
    ELSE IF HasAt(s, 1, sub) THEN Remove(SubSeq(s, Len(sub) + 1, Len(s)), sub)
    ELSE SubSeq(s, 1, 1) \o Remove(SubSeq(s, 2, Len(s)), sub)

\* float(numeral) for a numeral digits.dd (digits possibly empty): its value,
\* kept as the numeral without leading zeros, "0.dd" below 1
float(numeral) ==
    LET n == Len(numeral) - 3
        z == SkipWhile(numeral, 1, {"0"})
        int == IF z > n THEN "0" ELSE SubSeq(numeral, z, n)
    IN  int \o SubSeq(numeral, n + 1, Len(numeral))

\* value >= 0
GeqZero(value) == Ch(value, 1) # "-"

\* 0 < value
GtZero(value) == GeqZero(value) /\ \E i \in 1..Len(value) : Ch(value, i) \in (Digit \ {"0"})

\* the sanity ceiling of extract_total_value is 10000000000 = 10^CeilingExp
CeilingExp == 10

\* value < 10^n: the integer part has at most n digits
LtPow10(value, n) == GeqZero(value) => Len(value) - 3 <= n

-----------------------------------------------------------------------------
(* Value extractors of src/extract_all_statements_final_Version2.py *)

\* WFAParser.extract_closing_value, line 64:  if value >= 0
WFA_valid(value) == GeqZero(value)

\* the validation with the zero of the other institution's check
BOK_valid_accepting_zero(value) == GeqZero(value) /\ LtPow10(value, CeilingExp)

\* BOKFinancialParser.extract_total_value, line 160:
\* if 0 < value < 10000000000
BOK_valid(value) == GtZero(value) /\ LtPow10(value, CeilingExp)

valid(inst, value) == IF inst = "BOK" THEN BOK_valid(value) ELSE WFA_valid(value)

\* the conversion of a match m with its thousands separators kept
value_of_grouped(m) == float(m[1])

\* value = float(match.group(1).replace(',', '')) of a match m
value_of(m) == float(Remove(m[1], ","))

RECURSIVE stop_at_first_match(_, _, _, _)
\* a loop that gives up at the first pattern that matches, valid or not
stop_at_first_match(inst, patterns, s, k) ==
    IF k > Len(patterns) THEN None
    ELSE LET m == re_search(patterns[k], s)
         IN  IF m # None
             THEN (IF valid(inst, value_of(m)) THEN Some(value_of(m)) ELSE None)
             ELSE stop_at_first_match(inst, patterns, s, k + 1)

RECURSIVE for_pattern_in_patterns(_, _, _, _)
\* for pattern in patterns: ... from the k-th pattern on; falls out of the
\* loop to  return None.  float() of a captured [\d,]+\.\d{2} with its commas
\* removed never raises, so the except branch is never taken.
for_pattern_in_patterns(inst, patterns, s, k) ==
    IF k > Len(patterns) THEN None
    ELSE LET m == re_search(patterns[k], s)
         IN  IF m # None /\ valid(inst, value_of(m))
             THEN Some(value_of(m))
             ELSE for_pattern_in_patterns(inst, patterns, s, k + 1)

\* WFAParser.extract_closing_value(text)
extract_closing_value(text) ==
    IF ~Truthy(text) THEN None
    ELSE for_pattern_in_patterns("WFA", WFA_patterns, text[1], 1)

\* BOKFinancialParser.extract_total_value(text)
extract_total_value(text) ==
    IF ~Truthy(text) THEN None
    ELSE for_pattern_in_patterns("BOK", BOK_patterns, text[1], 1)

\* BOKFinancialParser.extract_total_value(text) of extract_bok_statements.py
BOKS_extract_total_value(text) ==
    IF ~Truthy(text) THEN None
    ELSE for_pattern_in_patterns("BOK", BOKS_patterns, text[1], 1)

-----------------------------------------------------------------------------
(* Documents.  A document is its filename and what PyPDF2 gives for it:    *)
(* readable = FALSE when open() or PdfReader raises, else pages is the     *)
(* sequence of page.extract_text() results, each None or Some(text).       *)

Doc(name, readable, pages) == [name |-> name, readable |-> readable, pages |-> pages]

\* r'Page\s*<n>\s*of\s*\d+' (case-sensitive) matches at position i;
\* n is "1" (find_snapshot_page) or "2" (find_account_overview_page)
RE_Page_n_of(s, i, n) ==
    /\ HasAt(s, i, "Page")
    /\ LET j == SkipWhile(s, i + 4, Whitespace)
       IN  /\ HasAt(s, j, n)
           /\ LET k == SkipWhile(s, j + Len(n), Whitespace)
              IN  /\ HasAt(s, k, "of")
                  /\ Ch(s, SkipWhile(s, k + 2, Whitespace)) \in Digit

\* re.search(r'Page\s*<n>\s*of\s*\d+', s) is not None
search_Page_n_of(s, n) == \E i \in 1..Len(s) : RE_Page_n_of(s, i, n)

\* WFAParser.find_snapshot_page, line 43: the condition on one page's text
snapshot_page_test(text) == Truthy(text) /\ search_Page_n_of(text[1], "1")

RECURSIVE snapshot_scan_backwards(_, _)
\* a scan that starts at the last page
snapshot_scan_backwards(pages, k) ==
    IF k < 1 \/ k > Len(pages) THEN None
    ELSE IF snapshot_page_test(pages[Len(pages) + 1 - k]) THEN pages[Len(pages) + 1 - k]
    ELSE snapshot_scan_backwards(pages, k + 1)

RECURSIVE snapshot_scan(_, _)
\* for page in pdf_reader.pages, from the k-th page on
snapshot_scan(pages, k) ==
    IF k > Len(pages) THEN None
    ELSE IF snapshot_page_test(pages[k]) THEN pages[k]
    ELSE snapshot_scan(pages, k + 1)

\* a locator that also accepts a page with SNAPSHOT and Closing, as
\* BankStatementParser.find_snapshot_page_pdfplumber does
snapshot_or_markers(doc) ==
    IF ~doc.readable THEN None
    ELSE LET hit == {k \in 1..Len(doc.pages) :
                        /\ Truthy(doc.pages[k])
                        /\ \/ search_Page_n_of(doc.pages[k][1], "1")
                           \/ /\ Contains(doc.pages[k][1], "SNAPSHOT")
                              /\ Contains(doc.pages[k][1], "Closing")}
         IN  IF hit = {} THEN None ELSE doc.pages[Min(hit)]

\* WFAParser.find_snapshot_page(pdf_path): the except branch returns None
find_snapshot_page(doc) ==
    IF ~doc.readable THEN None ELSE snapshot_scan(doc.pages, 1)

\* the test with either condition sufficing
overview_page_test_either(text) ==
    /\ Truthy(text)
    /\ \/ search_Page_n_of(text[1], "2") \/ Contains(text[1], "Page2of")
       \/ Contains(text[1], "AccountOverview") \/ Contains(text[1], "Account Overview")

\* BOKFinancialParser.find_account_overview_page, lines 125-131: the
\* conditions on one page's text
overview_page_test(text) ==
    /\ Truthy(text)
    /\ search_Page_n_of(text[1], "2") \/ Contains(text[1], "Page2of")
    /\ Contains(text[1], "AccountOverview") \/ Contains(text[1], "Account Overview")

RECURSIVE overview_scan_stop_at_blank(_, _)
\* a scan that ends at the first page without text
overview_scan_stop_at_blank(pages, k) ==
    IF k > Len(pages) THEN None
    ELSE IF ~Truthy(pages[k]) THEN None
    ELSE IF overview_page_test(pages[k]) THEN pages[k]
    ELSE overview_scan_stop_at_blank(pages, k + 1)

RECURSIVE overview_scan(_, _)
\* for page in pdf_reader.pages, from the k-th page on
overview_scan(pages, k) ==
    IF k > Len(pages) THEN None
    ELSE IF overview_page_test(pages[k]) THEN pages[k]
    ELSE overview_scan(pages, k + 1)

\* BOKFinancialParser.find_account_overview_page(pdf_path)
find_account_overview_page(doc) ==
    IF ~doc.readable THEN None ELSE overview_scan(doc.pages, 1)

\* is_bok_financial, line 208: the condition on one page's text
bok_signature_test(text) ==
    /\ Truthy(text)
    /\ \/ Contains(text[1], "BOKFINANCIAL")
       \/ Contains(text[1], "BOK FINANCIAL")
       \/ Contains(text[1], "BOKF")

\* a page selection that takes every page of the document, whatever its length
pages_to_check_all(pages) == [k \in 1..Len(pages) |-> k - 1]

\* is_bok_financial, line 203: the 0-based page numbers to check, in order
pages_to_check(pages) ==
    IF Len(pages) > 3 THEN <<0, 2, 3>> ELSE [k \in 1..Len(pages) |-> k - 1]

\* a classifier whose except branch returns True
is_bok_financial_except_true(doc) ==
    \/ ~doc.readable
    \/ LET check == pages_to_check(doc.pages)
       IN  \E n \in 1..Len(check) :
               /\ check[n] < Len(doc.pages)
               /\ bok_signature_test(doc.pages[check[n] + 1])

\* a classifier that looks for the Wells Fargo marker first
is_bok_financial_wfa_first(doc) ==
    /\ doc.readable
    /\ ~\E k \in 1..Len(doc.pages) :
           Truthy(doc.pages[k]) /\ Contains(doc.pages[k][1], "Wells Fargo Advisors")
    /\ LET check == pages_to_check(doc.pages)
       IN  \E n \in 1..Len(check) :
               /\ check[n] < Len(doc.pages)
               /\ bok_signature_test(doc.pages[check[n] + 1])

\* CombinedStatementParser.is_bok_financial(pdf_path): True as soon as a
\* checked page carries a signature; False after the loop and in the except
\* branch
is_bok_financial(doc) ==
    /\ doc.readable
    /\ LET check == pages_to_check(doc.pages)
       IN  \E n \in 1..Len(check) :
               /\ check[n] < Len(doc.pages)
               /\ bok_signature_test(doc.pages[check[n] + 1])

\* CombinedStatementParser.select_parser(pdf_path): the parser's institution
select_parser(doc) == IF is_bok_financial(doc) = TRUE THEN "BOK" ELSE "WFA"

-----------------------------------------------------------------------------
(* Filename fields *)

\* an exception that escapes the function: account_part.split()[0] on an
\* empty account part raises IndexError (a value unlike None, Some(x) and
\* any pair)
Raise == <<"raise", "IndexError", "list index out of range">>

\* the positions of s where the separator ' - ' stands
SeparatorAt(s) == {i \in 1..Len(s) : HasAt(s, i, " - ")}

\* a split at the FIRST separator
split_first(s) ==
    LET i == Min(SeparatorAt(s))
    IN  <<SubSeq(s, 1, i - 1), SubSeq(s, i + 3, Len(s))>>

\* name_part.rsplit(' - ', 1) when ' - ' is in name_part: the split at the
\* LAST separator
rsplit(s) ==
    LET i == Max(SeparatorAt(s))
    IN  <<SubSeq(s, 1, i - 1), SubSeq(s, i + 3, Len(s))>>

RECURSIVE rstrip(_)
rstrip(s) ==
    IF s # "" /\ Ch(s, Len(s)) \in Whitespace THEN rstrip(SubSeq(s, 1, Len(s) - 1)) ELSE s

\* str.strip()
strip(s) ==
    LET t == rstrip(s)
    IN  SubSeq(t, SkipWhile(t, 1, Whitespace), Len(t))

RECURSIVE SkipUntil(_, _, _)
\* the first position >= i of s whose character is in class C
SkipUntil(s, i, C) ==
    IF i <= Len(s) /\ Ch(s, i) \notin C THEN SkipUntil(s, i + 1, C) ELSE i

RECURSIVE split(_)
\* str.split(): the whitespace-delimited words of s, in order
split(s) ==
    LET b == SkipWhile(s, 1, Whitespace)
        e == SkipUntil(s, b, Whitespace)
    IN  IF b > Len(s) THEN << >>
        ELSE <<SubSeq(s, b, e - 1)>> \o split(SubSeq(s, e, Len(s)))

\* the end (exclusive) of the run of digits \d+ that starts at i, 0 if no
\* digit stands at i
DigitsEnd(s, i) == IF Ch(s, i) \in Digit THEN SkipWhile(s, i, Digit) ELSE 0

\* r'(\d+[-\.]\d+(?:\.\d+)?)' at position i, with the characters `sep` the
\* bracket allows: the end (exclusive) of the match, 0 if none
RE_account_general_end(s, i, sep) ==
    LET e1 == DigitsEnd(s, i)
        e2 == DigitsEnd(s, e1 + 1)
        e3 == DigitsEnd(s, e2 + 1)
    IN  IF e1 = 0 \/ Ch(s, e1) \notin sep \/ e2 = 0 THEN 0
        ELSE IF Ch(s, e2) = "." /\ e3 # 0 THEN e3
        ELSE e2

\* r'(\d+[-]\d+\.\d+)' at position i: the end (exclusive) of the match, 0 if
\* none
RE_account_bok_end(s, i) ==
    LET e1 == DigitsEnd(s, i)
        e2 == DigitsEnd(s, e1 + 1)
        e3 == DigitsEnd(s, e2 + 1)
    IN  IF e1 = 0 \/ Ch(s, e1) # "-" \/ e2 = 0 \/ Ch(s, e2) # "." \/ e3 = 0 THEN 0
        ELSE e3

AccountEnd(p, s, i) ==
    CASE p = "digits-digits.digits" -> RE_account_bok_end(s, i)
      [] p = "digits[-.]digits" -> RE_account_general_end(s, i, {"-", "."})
      [] p = "digits-digits" -> RE_account_general_end(s, i, {"-"})

\* re.search(p, s).group(1) for an account pattern: the leftmost match
search_account(p, s) ==
    LET M == {i \in 1..Len(s) : AccountEnd(p, s, i) # 0}
    IN  IF M = {} THEN None ELSE Some(SubSeq(s, Min(M), AccountEnd(p, s, Min(M)) - 1))

\* account_part.split()[0]
first_token(account_part) ==
    IF split(account_part) = << >> THEN Raise ELSE Some(split(account_part)[1])

\* WFAParser.extract_account_number_from_filename(filename)
WFA_extract_account_number_from_filename(filename) ==
    LET name_part == Remove(filename, ".pdf")
    IN  IF SeparatorAt(name_part) = {} THEN None
        ELSE LET account_part == strip(rsplit(name_part)[2])
                 match == search_account("digits[-.]digits", account_part)
             IN  IF match # None THEN match ELSE first_token(account_part)

\* BOKFinancialParser.extract_account_number_from_filename(filename) of
\* extract_all_statements_final_Version2.py
BOK_extract_account_number_from_filename(filename) ==
    LET name_part == Remove(filename, ".pdf")
    IN  IF SeparatorAt(name_part) = {} THEN None
        ELSE LET account_part == strip(rsplit(name_part)[2])
                 match == search_account("digits-digits.digits", account_part)
                 fallback == search_account("digits[-.]digits", account_part)
             IN  IF match # None THEN match
                 ELSE IF fallback # None THEN fallback
                 ELSE first_token(account_part)

\* the spellings of warehouse_pattern, in the order of the alternation
warehouse_words == <<"wh", "warehouse", "whse", "whouse", "warehse">>

\* a test that takes no word for a warehouse marker
never_warehouse(word) == FALSE

\* re.match(r'\b(WH|Warehouse|Whse|Whouse|Warehse)\b', word, re.IGNORECASE)
is_warehouse(word) ==
    /\ Ch(word, 1) \in WordChar
    /\ \E n \in 1..Len(warehouse_words) :
          /\ HasAtI(word, 1, warehouse_words[n])
          /\ Ch(word, Len(warehouse_words[n]) + 1) \notin WordChar

\* re.match(r'^[A-Z]{2,4}$', word, re.IGNORECASE)
is_code(word) ==
    /\ Len(word) >= 2
    /\ Len(word) <= 4
    /\ \A k \in 1..Len(word) : Ch(word, k) \in UpperSet \cup LowerSet

RECURSIVE upper(_)
\* str.upper()
upper(s) == IF s = "" THEN "" ELSE Upper(Ch(s, 1)) \o upper(SubSeq(s, 2, Len(s)))

RECURSIVE beneficiary_scan(_, _)
\* for word in reversed(name_words), from the k-th word down
beneficiary_scan(name_words, k) ==
    IF k < 1 THEN None
    ELSE IF is_warehouse(name_words[k]) THEN beneficiary_scan(name_words, k - 1)
    ELSE IF is_code(name_words[k]) THEN Some(upper(name_words[k]))
    ELSE beneficiary_scan(name_words, k - 1)

\* the function with the general account pattern tried before the specific
\* one
general_pattern_first(filename) ==
    LET name_part == Remove(filename, ".pdf")
    IN  IF SeparatorAt(name_part) = {} THEN <<None, None>>
        ELSE LET name_section == strip(rsplit(name_part)[1])
                 account_section == strip(rsplit(name_part)[2])
                 name_words == split(name_section)
                 beneficiary == beneficiary_scan(name_words, Len(name_words))
                 match == search_account("digits-digits", account_section)
                 account_number ==
                     IF match # None THEN match ELSE first_token(account_section)
             IN  IF account_number = Raise THEN Raise
                 ELSE <<beneficiary, account_number>>

\* extract_beneficiary_and_account(filename) of extract_bok_statements.py:
\* <<beneficiary, account_number>>, or Raise
extract_beneficiary_and_account(filename) ==
    LET name_part == Remove(filename, ".pdf")
    IN  IF SeparatorAt(name_part) = {} THEN <<None, None>>
        ELSE LET name_section == strip(rsplit(name_part)[1])
                 account_section == strip(rsplit(name_part)[2])
                 name_words == split(name_section)
                 beneficiary == beneficiary_scan(name_words, Len(name_words))
                 match == search_account("digits-digits.digits", account_section)
                 fallback == search_account("digits-digits", account_section)
                 account_number ==
                     IF match # None THEN match
                     ELSE IF fallback # None THEN fallback
                     ELSE first_token(account_section)
             IN  IF account_number = Raise THEN Raise
                 ELSE <<beneficiary, account_number>>

-----------------------------------------------------------------------------
(* parse: one record per document.  Status is "complete" for the source's  *)
(* check mark and "needs review" for its warning sign.                     *)

\* a status that tests the truth of closing_value, so that 0.0 counts as
\* missing
Status_by_truth(account_number, closing_value) ==
    IF Truthy(account_number) /\ closing_value # None /\ closing_value # Some("0.00")
    THEN "complete" ELSE "needs review"

\* '✓' if (account_number and closing_value is not None) else '⚠'
Status(account_number, closing_value) ==
    IF Truthy(account_number) /\ closing_value # None THEN "complete" ELSE "needs review"

\* WFAParser.parse(pdf_path): Some(record), or Raise
WFA_parse(doc) ==
    LET account_number == WFA_extract_account_number_from_filename(doc.name)
        page_text == find_snapshot_page(doc)
        closing_value == extract_closing_value(page_text)
    IN  IF account_number = Raise THEN Raise
        ELSE Some([Filename |-> doc.name,
                   AccountNumber |-> account_number,
                   ClosingValue |-> closing_value,
                   Institution |-> "Wells Fargo Advisors",
                   Status |-> Status(account_number, closing_value)])

\* BOKFinancialParser.parse(pdf_path) of
\* extract_all_statements_final_Version2.py: Some(record), or Raise
BOK_parse(doc) ==
    LET account_number == BOK_extract_account_number_from_filename(doc.name)
        page_text == find_account_overview_page(doc)
        total_value == extract_total_value(page_text)
    IN  IF account_number = Raise THEN Raise
        ELSE Some([Filename |-> doc.name,
                   AccountNumber |-> account_number,
                   ClosingValue |-> total_value,
                   Institution |-> "BOK Financial",
                   Status |-> Status(account_number, total_value)])

\* BOKFinancialParser.parse(pdf_path) of extract_bok_statements.py, whose
\* records carry a Beneficiary: Some(record), or Raise
BOKS_parse(doc) ==
    LET fields == extract_beneficiary_and_account(doc.name)
        page_text == find_account_overview_page(doc)
        total_value == BOKS_extract_total_value(page_text)
    IN  IF fields = Raise THEN Raise
        ELSE Some([Filename |-> doc.name,
                   Beneficiary |-> fields[1],
                   AccountNumber |-> fields[2],
                   ClosingValue |-> total_value,
                   Institution |-> "BOK Financial",
                   Status |-> Status(fields[2], total_value)])

-----------------------------------------------------------------------------
(* Inputs of the value extractors: a text is a run of at most MaxItems     *)
(* labelled amounts of one institution's vocabulary, or absent (None; the  *)
(* empty run is the empty string).                                         *)

MaxItems == 2

WFA_Labels == {"Closingvalue$", " Closing value $ ", "Closing value: $", "Closing value $-"}

WFA_Amounts == {"0.00", "1,234.56", "10,000,000,000.00"}

BOK_Labels == {"AccruedIncome 1.00 Total ", " Total ", "PrincipalTotal ", " Income Total "}

BOK_Amounts == {"0.00", "705,122.36", "9,999,999,999.99", "10,000,000,000.00"}

RECURSIVE Concat(_)
Concat(q) == IF q = << >> THEN "" ELSE Head(q) \o Concat(Tail(q))

Runs(Items, n) == UNION {[1..k -> Items] : k \in 0..n}

WFA_Texts == {Concat(q) : q \in Runs({l \o a : l \in WFA_Labels, a \in WFA_Amounts}, MaxItems)}

BOK_Texts == {Concat(q) : q \in Runs({l \o a : l \in BOK_Labels, a \in BOK_Amounts}, MaxItems)}

\* the renderings of the closing value label: collapsed with the figure
\* twice, collapsed, normally spaced, symbol directly after the label, and
\* with a colon
WFA_Examples ==
    {"Closingvalue$45,156.04$45,156.04",
     "Closingvalue$1,234.56",
     "Closing value $1,234.56",
     "Closing value$1,234.56",
     "Closing value: $1,234.56"}

Texts == {None} \cup {Some(t) : t \in WFA_Texts \cup BOK_Texts \cup WFA_Examples}

-----------------------------------------------------------------------------
(* The state of a run that is not under way *)

BatchIdle ==
    /\ folder_exists = FALSE
    /\ folder = {}
    /\ calls = 0
    /\ pdf_files = << >>
    /\ bok_files = << >>
    /\ idx = 0
    /\ results = << >>
    /\ pc = "idle"
    /\ report = None

batch_vars == <<folder_exists, folder, calls, pdf_files, bok_files, idx, results, pc, report>>

\* the function fn was applied to the input and returned val
Returned(fn, val) == Some([fn |-> fn, val |-> val])

-----------------------------------------------------------------------------
(* The value extractors applied to a text *)

InitText ==
    /\ BatchIdle
    /\ input \in {[kind |-> "text", text |-> t] : t \in Texts}
    /\ output = None

ApplyExtractClosingValue ==
    /\ input.kind = "text"
    /\ output = None
    /\ output' = Returned("extract_closing_value", extract_closing_value(input.text))
    /\ UNCHANGED <<batch_vars, input>>

ApplyExtractTotalValue ==
    /\ input.kind = "text"
    /\ output = None
    /\ output' = Returned("extract_total_value", extract_total_value(input.text))
    /\ UNCHANGED <<batch_vars, input>>

ApplyBOKSExtractTotalValue ==
    /\ input.kind = "text"
    /\ output = None
    /\ output' = Returned("extract_bok_statements.extract_total_value",
                          BOKS_extract_total_value(input.text))
    /\ UNCHANGED <<batch_vars, input>>

NextText == ApplyExtractClosingValue \/ ApplyExtractTotalValue \/ ApplyBOKSExtractTotalValue

SpecText == InitText /\ [][NextText]_vars

-----------------------------------------------------------------------------
(* Inputs of the document functions: the pages of a document are at most   *)
(* MaxPages page texts of one family, Wells Fargo or BOK.                  *)

MaxPages == 4

\* a page without text
NoText == None

\* the snapshot page of a Wells Fargo statement, with its page label
WFA_Snapshot == Some("Wells Fargo Advisors\nSNAPSHOT\nPage 1 of 12\nClosing value $1,234.56")

\* a page with the SNAPSHOT marker and a Closing label, without page label
WFA_MarkersOnly == Some("SNAPSHOT\nClosing value $45,156.04")

\* a page labelled with the tokens run together, closing value zero
WFA_RunTogether == Some("Page1of3 Closingvalue$0.00")

\* a page that carries the BOK signature and nothing else
BOK_Letterhead == Some("BOK FINANCIAL")

\* the Account Overview page of a BOK statement
BOK_Overview == Some("BOK FINANCIAL\nAccount Overview\nPage 2 of 9\nAccruedIncome 1.00 Total 705,122.36")

\* a page labelled Page 2 without the Account Overview marker
BOK_Page2Only == Some("Page 2 of 9\nTotal 10.00")

\* a page with the Account Overview marker that is not labelled Page 2
BOK_OverviewOnly == Some("AccountOverview\nPage 3 of 9\nTotal 20.00")

\* an Account Overview page with the tokens run together
BOK_RunTogether == Some("BOKF Page2of AccountOverview Total 30.00")

\* a page whose text is the empty string
EmptyText == Some("")

\* a page that carries the signature in mixed case
BOK_MixedCase == Some("BOK Financial\nAccount Overview\nPage 2 of 9\nTotal 40.00")

\* a page that carries the signature with the space collapsed
BOK_Collapsed == Some("BOKFINANCIAL")

WFA_Pages == {NoText, WFA_Snapshot, WFA_MarkersOnly, WFA_RunTogether, BOK_Letterhead}

\* pages without text among pages that satisfy the rules
Blank_Pages == {NoText, EmptyText, WFA_Snapshot, BOK_Overview}

\* the spellings of the signature, one page each
Signature_Pages == {BOK_Letterhead, BOK_MixedCase, BOK_Collapsed, BOK_RunTogether}

BOK_Pages == {NoText, BOK_Overview, BOK_Page2Only, BOK_OverviewOnly, BOK_RunTogether}

PageSeqs(Pages, n) == UNION {[1..k -> Pages] : k \in 0..n}

\* filenames: with beneficiary and account, with account only, without
\* separator, with an empty account section
DocNames ==
    {"First Coverage Re BIC - 1150-0007374.1.pdf",
     "Statement - 2193-4125.pdf",
     "Statement.pdf",
     "Name - .pdf"}

Docs ==
    {Doc("Statement - 2193-4125.pdf", TRUE, ps) :
        ps \in PageSeqs(WFA_Pages, MaxPages) \cup PageSeqs(BOK_Pages, MaxPages)
                  \cup PageSeqs(Blank_Pages, MaxPages)}
    \cup {Doc(n, TRUE, ps) :
            n \in DocNames,
            ps \in PageSeqs(WFA_Pages \cup BOK_Pages \cup Blank_Pages \cup Signature_Pages, 1)}
    \cup {Doc(n, FALSE, << >>) : n \in DocNames}

-----------------------------------------------------------------------------
(* The classifier, the page locators and the parsers applied to a document *)

InitDoc ==
    /\ BatchIdle
    /\ input \in {[kind |-> "doc", doc |-> d] : d \in Docs}
    /\ output = None

Apply(fn, val) ==
    /\ input.kind = "doc"
    /\ output = None
    /\ output' = Returned(fn, val)
    /\ UNCHANGED <<batch_vars, input>>

ApplySelectParser == Apply("select_parser", select_parser(input.doc))

ApplyFindSnapshotPage == Apply("find_snapshot_page", find_snapshot_page(input.doc))

ApplyFindAccountOverviewPage ==
    Apply("find_account_overview_page", find_account_overview_page(input.doc))

ApplyWFAParse == Apply("WFAParser.parse", WFA_parse(input.doc))

ApplyBOKParse == Apply("BOKFinancialParser.parse", BOK_parse(input.doc))

ApplyBOKSParse == Apply("extract_bok_statements.BOKFinancialParser.parse", BOKS_parse(input.doc))

NextDoc ==
    \/ ApplySelectParser
    \/ ApplyFindSnapshotPage
    \/ ApplyFindAccountOverviewPage
    \/ ApplyWFAParse
    \/ ApplyBOKParse
    \/ ApplyBOKSParse

SpecDoc == InitDoc /\ [][NextDoc]_vars

-----------------------------------------------------------------------------
(* CombinedStatementParser.process_all_pdfs and save_to_excel *)

\* the characters of the model's filenames in code point order
CodePoints == " -.0123456789ABCDEFGHIJKLMNOPQRSTUVWXYZ_abcdefghijklmnopqrstuvwxyz"

ord(c) == CHOOSE k \in 1..Len(CodePoints) : SubSeq(CodePoints, k, k) = c

RECURSIVE StrLess(_, _)
\* a < b for two str
StrLess(a, b) ==
    IF b = "" THEN FALSE
    ELSE IF a = "" THEN TRUE
    ELSE IF Ch(a, 1) # Ch(b, 1) THEN ord(Ch(a, 1)) < ord(Ch(b, 1))
    ELSE StrLess(SubSeq(a, 2, Len(a)), SubSeq(b, 2, Len(b)))

\* self.pdf_folder.glob('*.pdf'): the files whose name ends with .pdf
glob_pdf(files) == {d \in files : HasAt(d.name, Len(d.name) - 3, ".pdf")}

RECURSIVE sorted_descending(_)
\* the files in descending order of their paths
sorted_descending(files) ==
    IF files = {} THEN << >>
    ELSE LET first == CHOOSE d \in files : \A e \in files \ {d} : StrLess(e.name, d.name)
         IN  <<first>> \o sorted_descending(files \ {first})

RECURSIVE sorted(_)
\* sorted(list(...)): the files in ascending order of their paths
sorted(files) ==
    IF files = {} THEN << >>
    ELSE LET first == CHOOSE d \in files : \A e \in files \ {d} : StrLess(d.name, e.name)
         IN  <<first>> \o sorted(files \ {first})

RECURSIVE sort_values(_)
\* df.sort_values('Filename'): the records in ascending order of Filename,
\* records of one Filename in their order of arrival
sort_values(rows) ==
    IF rows = << >> THEN << >>
    ELSE LET n == Len(rows)
             rest == sort_values(SubSeq(rows, 1, n - 1))
             k == Cardinality({j \in 1..Len(rest) : ~StrLess(rows[n].Filename, rest[j].Filename)})
         IN  SubSeq(rest, 1, k) \o <<rows[n]>> \o SubSeq(rest, k + 1, Len(rest))

DigitChars == "0123456789"

DigitVal(c) == (CHOOSE k \in 1..10 : SubSeq(DigitChars, k, k) = c) - 1

\* A natural number is kept as the sequence of its binary digits, most
\* significant first, << >> for zero; a float is [m, e] for m * 2^e with m
\* of 53 binary digits, or Zero.

\* b without its leading zeros
Trim(b) ==
    LET ones == {i \in 1..Len(b) : b[i] = 1}
    IN  IF ones = {} THEN << >> ELSE SubSeq(b, Min(ones), Len(b))

Zeros(k) == [i \in 1..k |-> 0]

\* b * 2^k
Shl(b, k) == IF b = << >> THEN << >> ELSE b \o Zeros(k)

\* the binary digits that are handled at a time, as one integer
Chunk == 16

RECURSIVE ToInt(_)
\* the number of at most Chunk binary digits
ToInt(b) == IF b = << >> THEN 0 ELSE 2 * ToInt(SubSeq(b, 1, Len(b) - 1)) + b[Len(b)]

\* the n binary digits of v
FromInt(v, n) == [i \in 1..n |-> (v \div 2^(n - i)) % 2]

\* the last at most Chunk digits of b, and the digits before them
Low(b) == SubSeq(b, Max({1, Len(b) - Chunk + 1}), Len(b))

High(b) == SubSeq(b, 1, Len(b) - Chunk)

RECURSIVE AddChunks(_, _, _)
\* a + b + carry, Chunk digits at a time from the last
AddChunks(a, b, carry) ==
    IF a = << >> /\ b = << >> THEN FromInt(carry, 1)
    ELSE LET t == ToInt(Low(a)) + ToInt(Low(b)) + carry
         IN  AddChunks(High(a), High(b), t \div 2^Chunk) \o FromInt(t % 2^Chunk, Chunk)

\* a + b + carry
AddBits(a, b, carry) == Trim(AddChunks(a, b, carry))

RECURSIVE SubChunks(_, _, _)
\* a - b - borrow for a >= b + borrow, Chunk digits at a time from the last
SubChunks(a, b, borrow) ==
    IF a = << >> THEN << >>
    ELSE LET t == ToInt(Low(a)) - ToInt(Low(b)) - borrow
         IN  SubChunks(High(a), High(b), IF t < 0 THEN 1 ELSE 0)
             \o FromInt(IF t < 0 THEN t + 2^Chunk ELSE t, IF Len(a) < Chunk THEN Len(a) ELSE Chunk)

\* a - b for a >= b
SubBits(a, b) == Trim(SubChunks(a, b, 0))

\* a < b for two numbers without leading zeros
LessBits(a, b) ==
    \/ Len(a) < Len(b)
    \/ /\ Len(a) = Len(b)
       /\ \E i \in 1..Len(a) : a[i] < b[i] /\ \A j \in 1..(i - 1) : a[j] = b[j]

RECURSIVE MulChunks(_, _, _)
\* b * c + carry for a small factor c, Chunk digits at a time from the last
MulChunks(b, c, carry) ==
    IF b = << >> THEN FromInt(carry, Chunk)
    ELSE LET t == ToInt(Low(b)) * c + carry
         IN  MulChunks(High(b), c, t \div 2^Chunk) \o FromInt(t % 2^Chunk, Chunk)

\* b * c for a factor c below 2^(31 - Chunk)
MulBits(b, c) == Trim(MulChunks(b, c, 0))

RECURSIVE DecInt(_)
\* the number written by at most five decimal digits d
DecInt(d) ==
    IF d = "" THEN 0 ELSE 10 * DecInt(SubSeq(d, 1, Len(d) - 1)) + DigitVal(Ch(d, Len(d)))

\* the natural number written by the decimal digits d, at most thirteen,
\* taken in groups of four from the last
NatBits(d) ==
    LET n == Len(d)
        hi == Trim(FromInt(DecInt(SubSeq(d, 1, n - 8)), 17))
        mid == Trim(FromInt(DecInt(SubSeq(d, Max({1, n - 7}), n - 4)), 14))
        lo == Trim(FromInt(DecInt(SubSeq(d, Max({1, n - 3}), n)), 14))
    IN  AddBits(MulBits(AddBits(MulBits(hi, 10000), mid, 0), 10000), lo, 0)

RECURSIVE DivChunks(_, _, _)
\* <<b \div d, b % d>> for a small divisor d and the remainder r of the
\* digits before b, Chunk digits at a time from the first
DivChunks(b, d, r) ==
    IF b = << >> THEN <<<< >>, r>>
    ELSE LET n == IF Len(b) % Chunk = 0 THEN Chunk ELSE Len(b) % Chunk
             t == r * 2^n + ToInt(SubSeq(b, 1, n))
             rest == DivChunks(SubSeq(b, n + 1, Len(b)), d, t % d)
         IN  <<FromInt(t \div d, n) \o rest[1], rest[2]>>

\* <<b \div d, b % d>> for a divisor d below 2^(31 - Chunk)
DivBits(b, d) == <<Trim(DivChunks(b, d, 0)[1]), DivChunks(b, d, 0)[2]>>

\* the binary digits of the significand of a float
Precision == 53

\* the binary digits a decimal numeral is scaled by before its division
ScaleBits == 60

Zero == [neg |-> FALSE, m |-> << >>, e |-> 0]

\* the float nearest to b * 2^e (plus a fraction of 2^e if sticky), negated
\* if neg, ties to the even significand
RoundToFloat(neg, b, sticky, e) ==
    LET n == Len(b)
    IN  IF b = << >> THEN Zero
        ELSE IF n <= Precision
        THEN [neg |-> neg, m |-> b \o Zeros(Precision - n), e |-> e - (Precision - n)]
        ELSE LET keep == SubSeq(b, 1, Precision)
                 guard == b[Precision + 1]
                 rest == sticky \/ \E k \in (Precision + 2)..n : b[k] = 1
                 up == guard = 1 /\ (rest \/ keep[Precision] = 1)
                 r == IF up THEN AddBits(keep, << >>, 1) ELSE keep
             IN  IF Len(r) > Precision
                 THEN [neg |-> neg, m |-> SubSeq(r, 1, Precision),
                       e |-> e + (n - Precision) + 1]
                 ELSE [neg |-> neg, m |-> r, e |-> e + (n - Precision)]

\* float(value_str) of line 63 as a binary float: the float nearest to the
\* numeral digits.dd
float64(numeral) ==
    LET cents == NatBits(Remove(numeral, "."))
        qr == DivBits(Shl(cents, ScaleBits), 100)
    IN  RoundToFloat(FALSE, qr[1], qr[2] # 0, 0 - ScaleBits)

\* x + y for two floats
fadd(x, y) ==
    IF x = Zero THEN y
    ELSE IF y = Zero THEN x
    ELSE LET low == IF x.e < y.e THEN x.e ELSE y.e
             a == Shl(x.m, x.e - low)
             b == Shl(y.m, y.e - low)
         IN  IF x.neg = y.neg THEN RoundToFloat(x.neg, AddBits(a, b, 0), FALSE, low)
             ELSE IF a = b THEN Zero
             ELSE IF LessBits(a, b) THEN RoundToFloat(y.neg, SubBits(b, a), FALSE, low)
             ELSE RoundToFloat(x.neg, SubBits(a, b), FALSE, low)

\* x - y for two floats
fsub(x, y) == fadd(x, IF y = Zero THEN Zero ELSE [y EXCEPT !.neg = ~y.neg])

\* the Closing Value column as floats, NaN (None) replaced by 0
column(rows) ==
    [k \in 1..Len(rows) |->
        IF rows[k].ClosingValue = None THEN Zero ELSE float64(rows[k].ClosingValue[1])]

RECURSIVE accumulate(_, _, _)
\* res += a[i] for i from k to the end of a
accumulate(a, k, res) ==
    IF k > Len(a) THEN res ELSE accumulate(a, k + 1, fadd(res, a[k]))

RECURSIVE lanes(_, _, _, _)
\* the eight partial sums r of a summation of at least eight floats: the
\* blocks of eight from the k-th float up to position last are added to r
lanes(a, k, last, r) ==
    IF k > last THEN r
    ELSE lanes(a, k + 8, last, [j \in 1..8 |-> fadd(r[j], a[k + j - 1])])

\* the eight partial sums r added up in pairs
combine(r) ==
    fadd(fadd(fadd(r[1], r[2]), fadd(r[3], r[4])),
         fadd(fadd(r[5], r[6]), fadd(r[7], r[8])))

\* the summation loop over the floats a: the additions in its order, one
\* accumulator below eight floats, eight accumulators above and the
\* remaining floats added to their combination
pairwise_sum(a) ==
    IF Len(a) < 8 THEN accumulate(a, 1, Zero)
    ELSE accumulate(a, Len(a) - (Len(a) % 8) + 1,
                    combine(lanes(a, 9, Len(a) - (Len(a) % 8), [j \in 1..8 |-> a[j]])))

\* Series.sum() of the Closing Value column
sum(rows) == pairwise_sum(column(rows))

\* an issues list that reports a missing account number only
issues_account_only(row) ==
    IF row.AccountNumber = None THEN <<"no account #">> ELSE << >>

\* the issues list of a row that needs review, lines 351-355
issues(row) ==
    (IF row.AccountNumber = None THEN <<"no account #">> ELSE << >>)
    \o (IF row.ClosingValue = None THEN <<"no closing value">> ELSE << >>)

\* what save_to_excel computes from self.results and writes or prints
Report(rows) ==
    LET df == sort_values(rows)
        wfa_df == SelectSeq(df, LAMBDA r : r.Institution = "Wells Fargo Advisors")
        bok_df == SelectSeq(df, LAMBDA r : r.Institution = "BOK Financial")
        ok(r) == r.Status = "complete"
        needs_review == SelectSeq(df, LAMBDA r : r.Status # "complete")
    IN  [rows |-> df,
         wfa_total |-> sum(wfa_df),
         bok_total |-> sum(bok_df),
         total_value |-> sum(df),
         processed |-> Len(rows),
         success_count |-> Len(SelectSeq(df, ok)),
         wfa_count |-> Len(wfa_df),
         bok_count |-> Len(bok_df),
         wfa_success |-> Len(SelectSeq(wfa_df, ok)),
         bok_success |-> Len(SelectSeq(bok_df, ok)),
         needs_review |->
             [k \in 1..Len(needs_review) |->
                 [Filename |-> needs_review[k].Filename,
                  Institution |-> needs_review[k].Institution,
                  issues |-> issues(needs_review[k])]]]

\* parser.parse(pdf_file) with parser = self.select_parser(pdf_file)
parse_selected(doc) ==
    IF select_parser(doc) = "BOK" THEN BOK_parse(doc) ELSE WFA_parse(doc)

MaxDocs == 3

MaxCalls == 2

\* a snapshot page with the label collapsed and the figure twice
WFA_Duplicated == Some("SNAPSHOT\nPage 1 of 12\nClosingvalue$45,156.04$45,156.04")

\* what a file of the folder can hold
Contents ==
    {<<FALSE, << >>>>,
     <<TRUE, << >>>>,
     <<TRUE, <<WFA_Snapshot>>>>,
     <<TRUE, <<WFA_MarkersOnly>>>>,
     <<TRUE, <<WFA_Duplicated>>>>,
     <<TRUE, <<BOK_Letterhead, NoText, BOK_Letterhead, BOK_Overview>>>>}

\* the names a file of the folder can have
FileNames ==
    {"Auto Lane Re DAC - 3292-9150.pdf",
     "First Coverage Re BIC - 1150-0007374.1.pdf",
     "Name - .pdf",
     "Statement.pdf",
     "notes.txt"}

Files == {Doc(n, c[1], c[2]) : n \in FileNames, c \in Contents}

\* the files that can join folder f: those of a name f does not hold
Joinable(f) == {e \in Files : \A g \in f : g.name # e.name}

RECURSIVE FoldersOf(_)
\* the folders of at most n files, no two of one name
FoldersOf(n) ==
    IF n = 0 THEN {{}}
    ELSE FoldersOf(n - 1)
         \cup UNION {{f \cup {d} : d \in Joinable(f)} : f \in FoldersOf(n - 1)}

Folders == FoldersOf(MaxDocs)

Init ==
    /\ folder_exists \in BOOLEAN
    /\ folder \in Folders
    /\ ~folder_exists => folder = {}
    /\ calls = 0
    /\ pdf_files = << >>
    /\ bok_files = << >>
    /\ idx = 0
    /\ results = << >>
    /\ pc = "idle"
    /\ report = None
    /\ input = [kind |-> "none"]
    /\ output = None

\* process_all_pdfs up to its loop, lines 223-235
Begin ==
    /\ pc \in {"idle", "returned", "saved"}
    /\ calls < MaxCalls
    /\ calls' = calls + 1
    /\ IF ~folder_exists
       THEN pc' = "returned" /\ UNCHANGED <<pdf_files, idx>>
       ELSE /\ pdf_files' = sorted(glob_pdf(folder))
            /\ IF pdf_files' = << >>
               THEN pc' = "returned" /\ UNCHANGED idx
               ELSE pc' = "loop" /\ idx' = 1
    /\ UNCHANGED <<folder_exists, folder, bok_files, results, report, input, output>>

\* one turn of the loop, lines 237-241; an exception of parse leaves
\* process_all_pdfs
ProcessNext ==
    /\ pc = "loop"
    /\ idx <= Len(pdf_files)
    /\ LET result == parse_selected(pdf_files[idx])
       IN  IF result = Raise
           THEN pc' = "raised" /\ UNCHANGED <<results, idx>>
           ELSE /\ results' = Append(results, result[1])
                /\ idx' = idx + 1
                /\ pc' = "loop"
    /\ UNCHANGED <<folder_exists, folder, calls, pdf_files, bok_files, report, input, output>>

\* self.save_to_excel() after the loop, line 245
SaveToExcel ==
    /\ pc = "loop"
    /\ idx > Len(pdf_files)
    /\ report' = IF results = << >> THEN report ELSE Some(Report(results))
    /\ pc' = "saved"
    /\ UNCHANGED <<folder_exists, folder, calls, pdf_files, bok_files, idx, results, input,
                   output>>

Next == Begin \/ ProcessNext \/ SaveToExcel

Spec == Init /\ [][Next]_vars

-----------------------------------------------------------------------------
(* BOKStatementParser.process_all_pdfs and save_to_excel of                *)
(* extract_bok_statements.py                                               *)

RECURSIVE kahan(_, _, _, _)
\* the compensated summation of a from the k-th float on, with the sum s
\* and the compensation c so far
kahan(a, k, s, c) ==
    IF k > Len(a) THEN s
    ELSE LET y == fsub(a[k], c)
             t == fadd(s, y)
         IN  kahan(a, k + 1, t, fsub(fsub(t, s), y))

\* the values of the Closing Value column that are not NaN, as floats
notna(rows) ==
    LET present == SelectSeq(rows, LAMBDA r : r.ClosingValue # None)
    IN  [k \in 1..Len(present) |-> float64(present[k].ClosingValue[1])]

\* the 'sum' of one group: the values that are present added in row order,
\* with compensation in the builds whose groupby sum is compensated
group_sum(rows, compensated) ==
    IF compensated THEN kahan(notna(rows), 1, Zero, Zero)
    ELSE accumulate(notna(rows), 1, Zero)

RECURSIVE sorted_keys(_)
\* the group keys in ascending order
sorted_keys(keys) ==
    IF keys = {} THEN << >>
    ELSE LET first == CHOOSE a \in keys : \A b \in keys \ {a} : StrLess(a[1], b[1])
         IN  <<first>> \o sorted_keys(keys \ {first})

\* df.groupby('Beneficiary', dropna=False)['Closing Value']
\*   .agg(['sum', 'count']): one row per beneficiary in ascending order, the
\* group of the absent beneficiary last; count is the number of values
\* present
beneficiary_summary(df, compensated) ==
    LET present == {df[k].Beneficiary : k \in 1..Len(df)}
        keys == sorted_keys(present \ {None})
                    \o (IF None \in present THEN <<None>> ELSE << >>)
        group(b) == SelectSeq(df, LAMBDA r : r.Beneficiary = b)
    IN  [k \in 1..Len(keys) |->
            [ben_name |-> IF keys[k] = None THEN "Unknown" ELSE keys[k][1],
             sum |-> group_sum(group(keys[k]), compensated),
             count |-> Len(notna(group(keys[k])))]]

\* the issues list of a row that needs review, lines 301-307
BOKS_issues(row) ==
    (IF row.Beneficiary = None THEN <<"no beneficiary">> ELSE << >>)
    \o (IF row.AccountNumber = None THEN <<"no account #">> ELSE << >>)
    \o (IF row.ClosingValue = None THEN <<"no closing value">> ELSE << >>)

\* df.to_excel(writer, sheet_name='Summary', ...), lines 220-221: the data
\* rows of the sheet, one per record, a cell per column of df
Summary(df) ==
    [k \in 1..Len(df) |->
        <<Some(df[k].Filename), df[k].Beneficiary, df[k].AccountNumber, df[k].ClosingValue,
          Some(df[k].Institution), Some(df[k].Status)>>]

\* what BOKStatementParser.save_to_excel computes from self.results and
\* writes or prints
BOKS_Report(rows, compensated) ==
    LET df == sort_values(rows)
        needs_review == SelectSeq(df, LAMBDA r : r.Status # "complete")
    IN  [rows |-> df,
         workbook |-> [sheet \in {"Summary"} |-> Summary(df)],
         total_value |-> sum(df),
         processed |-> Len(rows),
         success_count |-> Len(SelectSeq(df, LAMBDA r : r.Status = "complete")),
         beneficiary_summary |-> beneficiary_summary(df, compensated),
         needs_review |->
             [k \in 1..Len(needs_review) |->
                 [Filename |-> needs_review[k].Filename,
                  issues |-> BOKS_issues(needs_review[k])]]]

\* a statement page with the signature, the Account Overview and a total
BOK_Overview_Small ==
    Some("BOK FINANCIAL\nAccount Overview\nPage 2 of 9\nAccruedIncome 1.00 Total 1,234.56")

BOK_Overview_Medium ==
    Some("BOK FINANCIAL\nAccount Overview\nPage 2 of 9\nAccruedIncome 1.00 Total 45,156.04")

\* what a file of the folder can hold: nothing readable, a Wells Fargo
\* statement, a BOK statement without its overview page, BOK statements
BOKS_Contents ==
    {<<FALSE, << >>>>,
     <<TRUE, <<WFA_Snapshot>>>>,
     <<TRUE, <<BOK_Letterhead>>>>,
     <<TRUE, <<BOK_Overview>>>>,
     <<TRUE, <<BOK_Overview_Small>>>>,
     <<TRUE, <<BOK_Overview_Medium>>>>}

\* the names a file of the folder can have: two of one beneficiary, one of
\* another, one with an empty account section, one without separator
BOKS_FileNames ==
    {"Auto Lane Re DAC - 3292-9150.pdf",
     "First Coverage Re BIC - 1150-0007374.1.pdf",
     "Kamal Alhajli WH BIC - 3719-3369.pdf",
     "Name - .pdf",
     "Statement.pdf"}

BOKS_Files == {Doc(n, c[1], c[2]) : n \in BOKS_FileNames, c \in BOKS_Contents}

RECURSIVE BOKS_FoldersOf(_)
\* the folders of at most n files, no two of one name
BOKS_FoldersOf(n) ==
    IF n = 0 THEN {{}}
    ELSE BOKS_FoldersOf(n - 1)
         \cup UNION {{f \cup {d} : d \in {e \in BOKS_Files : \A g \in f : g.name # e.name}} :
                        f \in BOKS_FoldersOf(n - 1)}

BOKS_Init ==
    /\ folder_exists \in BOOLEAN
    /\ folder \in BOKS_FoldersOf(MaxDocs)
    /\ ~folder_exists => folder = {}
    /\ calls = 0
    /\ pdf_files = << >>
    /\ bok_files = << >>
    /\ idx = 0
    /\ results = << >>
    /\ pc = "idle"
    /\ report = None
    /\ input = [kind |-> "none"]
    /\ output = None

\* process_all_pdfs up to its loop, lines 178-194: the early returns, then
\* the BOK statements are filtered out of the sorted files
BOKS_Begin ==
    /\ pc \in {"idle", "returned", "saved"}
    /\ calls < MaxCalls
    /\ calls' = calls + 1
    /\ IF ~folder_exists
       THEN pc' = "returned" /\ UNCHANGED <<pdf_files, bok_files, idx>>
       ELSE /\ pdf_files' = sorted(glob_pdf(folder))
            /\ IF pdf_files' = << >>
               THEN pc' = "returned" /\ UNCHANGED <<bok_files, idx>>
               ELSE /\ bok_files' = SelectSeq(pdf_files', LAMBDA f : is_bok_financial(f))
                    /\ pc' = "loop"
                    /\ idx' = 1
    /\ UNCHANGED <<folder_exists, folder, results, report, input, output>>

\* self.results.append(result), line 198, for the result of parse; an
\* exception of parse leaves process_all_pdfs
BOKS_append(result) ==
    IF result = Raise
    THEN pc' = "raised" /\ UNCHANGED <<results, idx>>
    ELSE /\ results' = Append(results, result[1])
         /\ idx' = idx + 1
         /\ pc' = "loop"

\* one turn of the loop, lines 196-199
BOKS_ProcessNext ==
    /\ pc = "loop"
    /\ idx <= Len(bok_files)
    /\ BOKS_append(BOKS_parse(bok_files[idx]))
    /\ UNCHANGED <<folder_exists, folder, calls, pdf_files, bok_files, report, input, output>>

\* self.save_to_excel() after the loop, line 204; the group sums are
\* compensated or not, as the installed pandas has it
BOKS_SaveToExcel ==
    /\ pc = "loop"
    /\ idx > Len(bok_files)
    /\ \E compensated \in BOOLEAN :
           report' = IF results = << >> THEN report
                     ELSE Some(BOKS_Report(results, compensated))
    /\ pc' = "saved"
    /\ UNCHANGED <<folder_exists, folder, calls, pdf_files, bok_files, idx, results, input,
                   output>>

NextBOK == BOKS_Begin \/ BOKS_ProcessNext \/ BOKS_SaveToExcel

SpecBOK == BOKS_Init /\ [][NextBOK]_vars

-----------------------------------------------------------------------------
(* Claims about the value extractors, checked under SpecText *)

\* the result of function fn, if that is what was applied
Out(fn) == IF output # None /\ output[1].fn = fn THEN Some(output[1].val) ELSE None

\* the numeral the k-th pattern of the list matches in s, as a value
matched(patterns, s, k) == value_of(re_search(patterns[k], s))

matches(patterns, s, k) == re_search(patterns[k], s) # None

\* the patterns of the list whose match in s lies in the range the claim
\* states, 0 <= v < ceiling
InClaimedRange(patterns, s) ==
    {k \in 1..Len(patterns) :
        /\ matches(patterns, s, k)
        /\ GeqZero(matched(patterns, s, k))
        /\ LtPow10(matched(patterns, s, k), CeilingExp)}

\* the patterns of the BOK list whose match in s lies in 0 < v < 10^10
InBOKRange(s) ==
    {k \in 1..Len(BOK_patterns) :
        /\ matches(BOK_patterns, s, k)
        /\ GtZero(matched(BOK_patterns, s, k))
        /\ LtPow10(matched(BOK_patterns, s, k), CeilingExp)}

\* the patterns of the WFA list that match in s (a match is never negative)
InWFARange(s) ==
    {k \in 1..Len(WFA_patterns) :
        /\ matches(WFA_patterns, s, k)
        /\ GeqZero(matched(WFA_patterns, s, k))}

FirstValid(inst, patterns, s) ==
    LET ok == {k \in 1..Len(patterns) :
                  matches(patterns, s, k) /\ valid(inst, matched(patterns, s, k))}
    IN  IF ok = {} THEN None ELSE Some(matched(patterns, s, Min(ok)))

\* C5: absent text gives absent; otherwise the result is the value of the
\* first pattern, in list order, that both matches and passes validation
\* (a match that fails validation does not end the search), and absent when
\* no pattern succeeds.
C5_FirstValidPattern ==
    /\ Out("extract_closing_value") # None =>
          Out("extract_closing_value")[1] =
              IF input.text = None \/ input.text = Some("") THEN None
              ELSE FirstValid("WFA", WFA_patterns, input.text[1])
    /\ Out("extract_total_value") # None =>
          Out("extract_total_value")[1] =
              IF input.text = None \/ input.text = Some("") THEN None
              ELSE FirstValid("BOK", BOK_patterns, input.text[1])

\* C5 witness: the first BOK pattern matched and failed validation, and the
\* second pattern's value was returned.
C5_Witness ==
    /\ Out("extract_total_value") # None
    /\ Truthy(input.text)
    /\ matches(BOK_patterns, input.text[1], 1)
    /\ ~valid("BOK", matched(BOK_patterns, input.text[1], 1))
    /\ Out("extract_total_value")[1] # None
    /\ Out("extract_total_value")[1] = Some(matched(BOK_patterns, input.text[1], 2))

-----------------------------------------------------------------------------
(* Claims about the classifier, the locators and parse, checked under      *)
(* SpecDoc                                                                 *)

ParseFns ==
    {"WFAParser.parse",
     "BOKFinancialParser.parse",
     "extract_bok_statements.BOKFinancialParser.parse"}

\* the record a parse function returned, if that is what happened
Record ==
    IF output # None /\ output[1].fn \in ParseFns /\ output[1].val # Raise
    THEN output[1].val
    ELSE None

\* C1: in every record parse returns, Status is complete if and only if the
\* Account Number is present and the Closing Value is present, a value of
\* 0.00 counting as present; it is needs-review in the other three
\* combinations, whatever the beneficiary.
C1_StatusIffBothPresent ==
    Record # None =>
        LET r == Record[1]
        IN  /\ r.Status \in {"complete", "needs review"}
            /\ r.Status = "complete" <=>
                   (r.AccountNumber # None /\ r.ClosingValue # None)

\* C1 witness: a record with an account number and a closing value of 0.00,
\* which is complete.
C1_Witness ==
    /\ Record # None
    /\ Record[1].AccountNumber # None
    /\ Record[1].ClosingValue = Some("0.00")
    /\ Record[1].Status = "complete"

\* the pages is_bok_financial looks at (numbered from 1): the first, third
\* and fourth of a document of more than three pages, else all
Inspected(doc) == IF Len(doc.pages) > 3 THEN {1, 3, 4} ELSE 1..Len(doc.pages)

HasSignature(text) ==
    /\ text # None
    /\ \E lit \in {"BOKFINANCIAL", "BOK FINANCIAL", "BOKF"} : Contains(text[1], lit)

HasWFAMarker(doc) ==
    \E k \in 1..Len(doc.pages) :
        doc.pages[k] # None /\ Contains(doc.pages[k][1], "Wells Fargo Advisors")

\* C6: select_parser commits to exactly one of the two profiles; it is BOK
\* Financial if and only if a BOK signature stands in the text of an inspected
\* page, whether or not Wells Fargo markers appear in the document, and the
\* default Wells Fargo Advisors profile otherwise.
C6_BOKProfileFirst ==
    Out("select_parser") # None =>
        LET doc == input.doc
            profile == Out("select_parser")[1]
        IN  /\ profile \in {"BOK", "WFA"}
            /\ profile = "BOK" <=>
                   /\ doc.readable
                   /\ \E k \in Inspected(doc) : HasSignature(doc.pages[k])

\* C6 witness: a document that carries the Wells Fargo marker and a BOK
\* signature was classified as BOK Financial.
C6_Witness ==
    /\ Out("select_parser") = Some("BOK")
    /\ HasWFAMarker(input.doc)

\* C7: for a document the PDF reader cannot open, select_parser returns the
\* Wells Fargo Advisors parser, both page locators return absent, and a
\* record parse returns has no closing value and needs review.
C7_UnreadableDocument ==
    (output # None /\ ~input.doc.readable) =>
        /\ Out("select_parser") # None => Out("select_parser")[1] = "WFA"
        /\ Out("find_snapshot_page") # None => Out("find_snapshot_page")[1] = None
        /\ Out("find_account_overview_page") # None =>
               Out("find_account_overview_page")[1] = None
        /\ Record # None =>
               /\ Record[1].ClosingValue = None
               /\ Record[1].Status = "needs review"

\* C7 witness: WFAParser.parse returned a record for an unreadable document
\* whose filename carries an account number.
C7_Witness ==
    /\ ~input.doc.readable
    /\ Record # None
    /\ output[1].fn = "WFAParser.parse"
    /\ Record[1].AccountNumber # None
    /\ Record[1].Status = "needs review"

\* the text of a page matches 'Page <n> of <N>', whitespace between the
\* tokens optional
PageLabel(text, n) == text # None /\ search_Page_n_of(text[1], n)

\* the text of a page holds the SNAPSHOT marker and a Closing label
SnapshotAndClosing(text) ==
    text # None /\ Contains(text[1], "SNAPSHOT") /\ Contains(text[1], "Closing")

\* the pages (numbered from 1) of the document that match 'Page 1 of <N>'
LabelledPage1(doc) == {k \in 1..Len(doc.pages) : PageLabel(doc.pages[k], "1")}

Page2Label(text) ==
    text # None /\ (search_Page_n_of(text[1], "2") \/ Contains(text[1], "Page2of"))

\* the text of a page holds 'Account Overview' or 'AccountOverview'
OverviewMarker(text) ==
    /\ text # None
    /\ Contains(text[1], "Account Overview") \/ Contains(text[1], "AccountOverview")

\* C9: a page BOKFinancialParser.find_account_overview_page returns is a page
\* of the document that both matches 'Page 2 of <N>' (or holds 'Page2of') and
\* holds the Account Overview marker; a page with only one of the two is
\* never returned.
C9_BothConditions ==
    Out("find_account_overview_page") # None =>
        LET page == Out("find_account_overview_page")[1]
        IN  page # None =>
                /\ \E k \in 1..Len(input.doc.pages) : input.doc.pages[k] = page
                /\ Page2Label(page)
                /\ OverviewMarker(page)

\* C9 witness: the locator returned absent for a readable document that has a
\* page with the Page 2 label only and a page with the marker only.
C9_Witness ==
    /\ Out("find_account_overview_page") = Some(None)
    /\ input.doc.readable
    /\ \E k \in 1..Len(input.doc.pages) :
          Page2Label(input.doc.pages[k]) /\ ~OverviewMarker(input.doc.pages[k])
    /\ \E k \in 1..Len(input.doc.pages) :
          OverviewMarker(input.doc.pages[k]) /\ ~Page2Label(input.doc.pages[k])

\* the pages (numbered from 1) that satisfy the rule of the BOK locator
OverviewPages(doc) ==
    {k \in 1..Len(doc.pages) : Page2Label(doc.pages[k]) /\ OverviewMarker(doc.pages[k])}

\* the page of least number among those numbered in S, None if S is empty
FirstOf(doc, S) == IF S = {} THEN None ELSE doc.pages[Min(S)]

\* C10: each locator returns the text of the first page, in physical order,
\* that satisfies its rule, and absent if no page does; the closing value of
\* a record is then absent.
C10_FirstPageInOrder ==
    (output # None /\ input.doc.readable) =>
        /\ Out("find_snapshot_page") # None =>
               Out("find_snapshot_page")[1] = FirstOf(input.doc, LabelledPage1(input.doc))
        /\ Out("find_account_overview_page") # None =>
               Out("find_account_overview_page")[1] =
                   FirstOf(input.doc, OverviewPages(input.doc))
        /\ (Record # None /\ output[1].fn = "WFAParser.parse"
               /\ LabelledPage1(input.doc) = {}) => Record[1].ClosingValue = None
        /\ (Record # None /\ output[1].fn # "WFAParser.parse"
               /\ OverviewPages(input.doc) = {}) => Record[1].ClosingValue = None

\* C10 witness: two pages of different text satisfy the rule of the Wells
\* Fargo locator, and the locator returned the earlier one.
C10_Witness ==
    /\ Out("find_snapshot_page") # None
    /\ \E j, k \in LabelledPage1(input.doc) :
          /\ j < k
          /\ input.doc.pages[j] # input.doc.pages[k]
          /\ \A i \in LabelledPage1(input.doc) : j <= i
          /\ Out("find_snapshot_page")[1] = input.doc.pages[j]

-----------------------------------------------------------------------------
(* Claims about process_all_pdfs, checked under Spec *)

\* the first call of process_all_pdfs on the object has ended: it returned
\* early, it returned after save_to_excel, or an exception left it
FirstCallEnded == calls = 1 /\ pc \in {"returned", "saved", "raised"}

\* the names of the PDF documents of the folder
PdfNames == {d.name : d \in glob_pdf(folder)}

\* C2 as stated: process_all_pdfs over a folder of N PDF documents ends with
\* exactly N records in results, one for each document's filename, each
\* complete or needs-review.
C2_AsClaimed ==
    FirstCallEnded =>
        /\ Len(results) = Cardinality(PdfNames)
        /\ \A n \in PdfNames :
              Cardinality({k \in 1..Len(results) : results[k].Filename = n}) = 1
        /\ \A k \in 1..Len(results) : results[k].Status \in {"complete", "needs review"}

\* C3 as stated: no exception escapes parse, and process_all_pdfs goes on to
\* process every document of the folder: it never ends with documents left
\* unprocessed.
C3_AsClaimed ==
    /\ pc # "raised"
    /\ (pc \in {"returned", "saved"} /\ calls >= 1) => idx = Len(pdf_files) + 1 \/ pdf_files = << >>

-----------------------------------------------------------------------------
(* Further claims about the classifier and the locators, checked under     *)
(* SpecDoc                                                                 *)

\* the text of a page is absent: None or the empty string
TextLess(text) == text = None \/ text = Some("")

\* the document without its text-less pages
WithoutTextLess(doc) ==
    [doc EXCEPT !.pages = SelectSeq(doc.pages, LAMBDA t : ~TextLess(t))]

\* C11: a page whose text is None or empty is a non-match that is skipped:
\* each locator returns what it returns for the document without its
\* text-less pages, and the classifier answers BOK Financial when a signature
\* stands on an inspected page that follows a text-less inspected page.
C11_TextLessPagesSkipped ==
    (output # None /\ input.doc.readable) =>
        LET doc == input.doc
            rest == WithoutTextLess(doc)
        IN  /\ Out("find_snapshot_page") # None =>
                   Out("find_snapshot_page")[1] = FirstOf(rest, LabelledPage1(rest))
            /\ Out("find_account_overview_page") # None =>
                   Out("find_account_overview_page")[1] = FirstOf(rest, OverviewPages(rest))
            /\ Out("select_parser") # None =>
                   ((\E j, k \in Inspected(doc) :
                        j < k /\ TextLess(doc.pages[j]) /\ HasSignature(doc.pages[k]))
                    => Out("select_parser")[1] = "BOK")

\* C11 witness: the BOK locator returned a page of a document whose first
\* page has the empty string for text and whose second page has none.
C11_Witness ==
    /\ Out("find_account_overview_page") # None
    /\ Out("find_account_overview_page")[1] # None
    /\ Len(input.doc.pages) >= 3
    /\ input.doc.pages[1] = Some("")
    /\ input.doc.pages[2] = None

-----------------------------------------------------------------------------
(* Inputs of the filename functions: a filename is a name section of at    *)
(* most MaxWords words, then optionally the separator and an account       *)
(* section, then the extension.                                            *)

MaxWords == 3

\* words of a name section: names, beneficiary codes in both letter cases,
\* warehouse markers, a dash that makes a separator inside the name section,
\* and a digit group
NameWords == {"Kamal", "Risk", "BIC", "dac", "WH", "whse", "-", "11-22"}

\* account sections: the two account formats, an empty section, several
\* digit groups, groups joined with a period, and sections without a group
AccountSections ==
    {"3719-3369", "1150-0007374.1", "", "12-34 5-6.7", "1.2 3-4", "1.2-3.4", "Acct 7"}

RECURSIVE Join(_)
\* the words of q joined with single spaces
Join(q) ==
    IF q = << >> THEN ""
    ELSE IF Len(q) = 1 THEN q[1]
    ELSE q[1] \o " " \o Join(Tail(q))

NameSections == {Join(q) : q \in Runs(NameWords, MaxWords)}

\* the filenames the tests of the repository and its documentation name
ExampleNames ==
    {"Baby Goat Re BIC Enterprise Risk - 2193-4125.pdf",
     "Kamal Alhajli WH BIC - 3719-3369.pdf",
     "First Coverage Re BIC - 1150-0007374.1.pdf"}

Filenames ==
    {n \o " - " \o a \o ".pdf" : n \in NameSections, a \in AccountSections}
    \cup {n \o ".pdf" : n \in NameSections}
    \cup ExampleNames

-----------------------------------------------------------------------------
(* The filename functions applied to a filename *)

InitName ==
    /\ BatchIdle
    /\ input \in {[kind |-> "filename", filename |-> f] : f \in Filenames}
    /\ output = None

ApplyWFAAccount ==
    /\ input.kind = "filename"
    /\ output = None
    /\ output' = Returned("WFAParser.extract_account_number_from_filename",
                          WFA_extract_account_number_from_filename(input.filename))
    /\ UNCHANGED <<batch_vars, input>>

ApplyBOKAccount ==
    /\ input.kind = "filename"
    /\ output = None
    /\ output' = Returned("BOKFinancialParser.extract_account_number_from_filename",
                          BOK_extract_account_number_from_filename(input.filename))
    /\ UNCHANGED <<batch_vars, input>>

ApplyBeneficiaryAndAccount ==
    /\ input.kind = "filename"
    /\ output = None
    /\ output' = Returned("extract_beneficiary_and_account",
                          extract_beneficiary_and_account(input.filename))
    /\ UNCHANGED <<batch_vars, input>>

NextName == ApplyWFAAccount \/ ApplyBOKAccount \/ ApplyBeneficiaryAndAccount

SpecName == InitName /\ [][NextName]_vars

-----------------------------------------------------------------------------
(* Claims about the filename functions, checked under SpecName *)

\* the filename with its extension removed
NamePart(filename) == Remove(filename, ".pdf")

\* the lengths of the ends of s that directly follow a separator
AfterSeparator(s) ==
    {n \in 0..(Len(s) - 3) : SubSeq(s, Len(s) - n - 2, Len(s) - n) = " - "}

\* what follows the last separator of s: the shortest end of s that directly
\* follows a separator
AfterLast(s) == SubSeq(s, Len(s) - Min(AfterSeparator(s)) + 1, Len(s))

\* what precedes the last separator of s
BeforeLast(s) == SubSeq(s, 1, Len(s) - Min(AfterSeparator(s)) - 3)

\* C12: extract_beneficiary_and_account takes the account identifier from
\* what follows the LAST ' - ' of the filename without its extension, also
\* when the name section contains ' - '; without ' - ' both fields are
\* absent; 'Baby Goat Re BIC Enterprise Risk - 2193-4125.pdf' gives
\* '2193-4125'.
C12_SplitAtLastSeparator ==
    Out("extract_beneficiary_and_account") # None =>
        LET r == Out("extract_beneficiary_and_account")[1]
            s == NamePart(input.filename)
        IN  /\ ~Contains(s, " - ") => r = <<None, None>>
            /\ (Contains(s, " - ") /\ r # Raise) =>
                   /\ r[2] # None
                   /\ Contains(AfterLast(s), r[2][1])
            /\ input.filename = "Baby Goat Re BIC Enterprise Risk - 2193-4125.pdf" =>
                   r[2] = Some("2193-4125")

\* C12 witness: the name section holds a separator followed by a digit group,
\* and the account identifier is the group after the last separator.
C12_Witness ==
    /\ input.filename = "Kamal - 11-22 - 3719-3369.pdf"
    /\ Out("extract_beneficiary_and_account") # None
    /\ Out("extract_beneficiary_and_account")[1][2] = Some("3719-3369")

\* the account section of the filename: what follows the last separator,
\* stripped
AccountSection(filename) == strip(AfterLast(NamePart(filename)))

\* the first of (a) digits-dash-digits-dot-digits, (b) the pattern b,
\* (c) the first whitespace-delimited token, that finds something in the
\* section
FirstOfThree(section, b) ==
    LET A == search_account("digits-digits.digits", section)
        B == search_account(b, section)
    IN  IF A # None THEN A
        ELSE IF B # None THEN B
        ELSE first_token(section)

\* the account identifier extract_beneficiary_and_account returned, Raise if
\* it raised
BeneficiaryAccount ==
    LET r == Out("extract_beneficiary_and_account")[1]
    IN  IF r = Raise THEN Raise ELSE r[2]

IsMarker(word) ==
    \E m \in {"wh", "warehouse", "whse", "whouse", "warehse"} :
        Len(word) = Len(m) /\ HasAtI(word, 1, m)

\* the word is made of 2 to 4 letters
IsLetterCode(word) ==
    /\ Len(word) \in 2..4
    /\ \A k \in 1..Len(word) : Ch(word, k) \in UpperSet \cup LowerSet

\* code is the word in upper case
IsUpperCased(code, word) ==
    /\ Len(code) = Len(word)
    /\ \A k \in 1..Len(code) :
          Lower(Ch(code, k)) = Lower(Ch(word, k)) /\ Ch(code, k) \notin LowerSet

\* the words of the name section of the filename: what precedes the last
\* separator
NameWordsOf(filename) == split(BeforeLast(NamePart(filename)))

\* C14: the beneficiary is the last word of the name section that is not a
\* warehouse marker and is made of 2 to 4 letters, in upper case, and absent
\* if there is no such word; it is never a warehouse marker.  The two
\* filenames of the tests give BIC with 3719-3369 and BIC with
\* 1150-0007374.1.
C14_BeneficiaryCode ==
    (Out("extract_beneficiary_and_account") # None
        /\ Out("extract_beneficiary_and_account")[1] # Raise) =>
        LET r == Out("extract_beneficiary_and_account")[1]
            words == IF Contains(NamePart(input.filename), " - ")
                     THEN NameWordsOf(input.filename) ELSE << >>
            Q == {k \in 1..Len(words) : ~IsMarker(words[k]) /\ IsLetterCode(words[k])}
        IN  /\ Q = {} <=> r[1] = None
            /\ Q # {} => IsUpperCased(r[1][1], words[Max(Q)])
            /\ r[1] # None => ~IsMarker(r[1][1])
            /\ input.filename = "Kamal Alhajli WH BIC - 3719-3369.pdf" =>
                   r = <<Some("BIC"), Some("3719-3369")>>
            /\ input.filename = "First Coverage Re BIC - 1150-0007374.1.pdf" =>
                   r = <<Some("BIC"), Some("1150-0007374.1")>>

\* C14 witness: the last word of the name section is a warehouse marker and
\* the word before it a code in lower case, which was returned in upper case.
C14_Witness ==
    /\ Out("extract_beneficiary_and_account") # None
    /\ Out("extract_beneficiary_and_account")[1] # Raise
    /\ Contains(NamePart(input.filename), " - ")
    /\ LET words == NameWordsOf(input.filename)
       IN  /\ Len(words) >= 2
           /\ IsMarker(words[Len(words)])
           /\ words[Len(words) - 1] = "dac"
    /\ Out("extract_beneficiary_and_account")[1][1] = Some("DAC")

\* C15 as stated: the account identifier depends on the filename alone:
\* WFAParser.extract_account_number_from_filename and
\* BOKFinancialParser.extract_account_number_from_filename return the same
\* result for every filename.
C15_AsClaimed ==
    /\ Out("WFAParser.extract_account_number_from_filename") # None =>
           Out("WFAParser.extract_account_number_from_filename")[1] =
               BOK_extract_account_number_from_filename(input.filename)
    /\ Out("BOKFinancialParser.extract_account_number_from_filename") # None =>
           Out("BOKFinancialParser.extract_account_number_from_filename")[1] =
               WFA_extract_account_number_from_filename(input.filename)

-----------------------------------------------------------------------------
(* Further claims about the value extractors, checked under SpecText *)

\* the amount pattern p captures in s, as a value; None without a match
Captured(p, s) == IF re_search(p, s) = None THEN None ELSE Some(value_of(re_search(p, s)))

\* 0 < v < 10000000000 for a captured amount v
Plausible(v) == v # None /\ GtZero(v[1]) /\ LtPow10(v[1], CeilingExp)

\* C16: when 'AccruedIncome <amount> Total <amount>' occurs in the text with
\* a valid amount, both BOK extractors return the amount of that Total, also
\* when another 'Total <amount>' stands earlier in the text.
C16_ContextPatternFirst ==
    /\ (Out("extract_total_value") # None /\ Truthy(input.text)
            /\ Plausible(Captured("AccruedIncome Total", input.text[1]))) =>
           Out("extract_total_value")[1] = Captured("AccruedIncome Total", input.text[1])
    /\ (Out("extract_bok_statements.extract_total_value") # None /\ Truthy(input.text)
            /\ Plausible(Captured("AccruedIncome Total", input.text[1]))) =>
           Out("extract_bok_statements.extract_total_value")[1] =
               Captured("AccruedIncome Total", input.text[1])

\* C16 witness: the text begins with a standalone Total of a valid amount and
\* goes on with the AccruedIncome form of another valid amount, which was
\* returned.
C16_Witness ==
    /\ Out("extract_total_value") # None
    /\ Truthy(input.text)
    /\ HasAt(input.text[1], 1, " Total 705,122.36AccruedIncome")
    /\ Plausible(Captured("AccruedIncome Total", input.text[1]))
    /\ Out("extract_total_value")[1] # Some("705122.36")
    /\ Out("extract_total_value")[1] = Captured("AccruedIncome Total", input.text[1])

\* the label of a compound total (Principal, Income) ends directly before
\* position i of s, or one space before it
CompoundLabelBefore(s, i) ==
    \E w \in {"principal", "income"} :
        HasAtI(s, i - Len(w), w) \/ HasAtI(s, i - Len(w) - 1, w \o " ")

\* the amounts that follow a standalone Total label in s, as values
StandaloneTotals(s) ==
    {value_of(TotalAmount(s, i)) :
        i \in {j \in 1..Len(s) : TotalAmount(s, j) # None /\ ~CompoundLabelBefore(s, j)}}

\* C17 as stated: a value a BOK extractor returns is the amount that follows
\* a standalone Total label, never the amount after 'Principal Total' or
\* 'Income Total', written with or without the space.
C17_AsClaimed ==
    /\ (Out("extract_total_value") # None /\ Truthy(input.text)
            /\ Out("extract_total_value")[1] # None) =>
           Out("extract_total_value")[1][1] \in StandaloneTotals(input.text[1])
    /\ (Out("extract_bok_statements.extract_total_value") # None /\ Truthy(input.text)
            /\ Out("extract_bok_statements.extract_total_value")[1] # None) =>
           Out("extract_bok_statements.extract_total_value")[1][1]
               \in StandaloneTotals(input.text[1])

\* the numerals of s that stand directly after a currency symbol
FiguresOf(s) ==
    {Amount(s, i)[1] : i \in {j \in 2..Len(s) : Ch(s, j - 1) = "$" /\ Amount(s, j) # None}}

RECURSIVE DigitsAndPoint(_)
\* the characters of a numeral other than its thousands separators
DigitsAndPoint(a) ==
    IF a = "" THEN ""
    ELSE (IF Ch(a, 1) = "," THEN "" ELSE Ch(a, 1)) \o DigitsAndPoint(SubSeq(a, 2, Len(a)))

\* C18: on the page text 'Closingvalue$45,156.04$45,156.04' the closing value
\* is 45156.04; whenever the collapsed label is followed by figures each
\* directly after a currency symbol, the value is one of those figures
\* without its thousands separators, and the first one when the text
\* begins with the label.
C18_FirstNumeralOnce ==
    (Out("extract_closing_value") # None /\ Truthy(input.text)) =>
        /\ input.text[1] = "Closingvalue$45,156.04$45,156.04" =>
               Out("extract_closing_value")[1] = Some("45156.04")
        /\ (HasAt(input.text[1], 1, "Closingvalue$") /\ Amount(input.text[1], 14) # None) =>
               /\ Out("extract_closing_value")[1] =
                      Some(DigitsAndPoint(Amount(input.text[1], 14)[1]))
               /\ Out("extract_closing_value")[1][1]
                      \in {DigitsAndPoint(a) : a \in FiguresOf(input.text[1])}

\* the duplicated figure has been read as one amount
C18_Witness ==
    /\ Truthy(input.text)
    /\ input.text[1] = "Closingvalue$45,156.04$45,156.04"
    /\ Cardinality({i \in 1..Len(input.text[1]) : HasAt(input.text[1], i, "$45,156.04")}) = 2
    /\ Out("extract_closing_value") = Some(Some("45156.04"))

\* C19 as stated: each of the four renderings of the closing value label,
\* collapsed, normally spaced, symbol directly after the label, and with a
\* colon, yields 1234.56.
C19_AsClaimed ==
    (Out("extract_closing_value") # None /\ Truthy(input.text)
        /\ input.text[1] \in {"Closingvalue$1,234.56", "Closing value $1,234.56",
                              "Closing value$1,234.56", "Closing value: $1,234.56"}) =>
        Out("extract_closing_value")[1] = Some("1234.56")

\* the BOK signature in any letter case, with or without its internal space
SignatureVariant(text) ==
    /\ text # None
    /\ \E i \in 1..Len(text[1]) :
           HasAtI(text[1], i, "bok financial") \/ HasAtI(text[1], i, "bokfinancial")

\* C20 as stated: a document with the BOK signature on an inspected page, in
\* upper case, in another letter case such as 'BOK Financial', or with the
\* internal space removed, is classified as BOK Financial.
C20_AsClaimed ==
    (Out("select_parser") # None /\ input.doc.readable
        /\ \E k \in Inspected(input.doc) : SignatureVariant(input.doc.pages[k])) =>
        Out("select_parser")[1] = "BOK"


-----------------------------------------------------------------------------
(* Claims about the report of save_to_excel, checked under Spec *)

RECURSIVE AddDigits(_, _, _)
\* the sum of two numerals of digits and a carry, as a numeral
AddDigits(a, b, carry) ==
    IF a = "" /\ b = "" THEN (IF carry = 0 THEN "" ELSE "1")
    ELSE LET x == IF a = "" THEN 0 ELSE DigitVal(Ch(a, Len(a)))
             y == IF b = "" THEN 0 ELSE DigitVal(Ch(b, Len(b)))
             t == x + y + carry
         IN  AddDigits(IF a = "" THEN "" ELSE SubSeq(a, 1, Len(a) - 1),
                       IF b = "" THEN "" ELSE SubSeq(b, 1, Len(b) - 1),
                       t \div 10)
             \o SubSeq(DigitChars, (t % 10) + 1, (t % 10) + 1)

\* the decimal sum of two numerals digits.dd
Add(a, b) ==
    LET c == AddDigits(Remove(a, "."), Remove(b, "."), 0)
    IN  float(SubSeq(c, 1, Len(c) - 2) \o "." \o SubSeq(c, Len(c) - 1, Len(c)))

RECURSIVE ExactSum(_)
\* the decimal sum of the closing values that are present in rows
ExactSum(rows) ==
    IF rows = << >> THEN "0.00"
    ELSE IF Head(rows).ClosingValue = None THEN ExactSum(Tail(rows))
    ELSE Add(Head(rows).ClosingValue[1], ExactSum(Tail(rows)))

\* the rows of the report that belong to an institution
RowsOf(inst) == SelectSeq(report[1].rows, LAMBDA r : r.Institution = inst)

\* C21 as stated: the grand total is the exact sum of the closing values
\* that are present, each institution's total is the exact sum over that
\* institution's records, and the two institution totals add up to the
\* grand total.
C21_AsClaimed ==
    report # None =>
        /\ report[1].total_value = float64(ExactSum(report[1].rows))
        /\ report[1].wfa_total = float64(ExactSum(RowsOf("Wells Fargo Advisors")))
        /\ report[1].bok_total = float64(ExactSum(RowsOf("BOK Financial")))
        /\ fadd(report[1].wfa_total, report[1].bok_total) = report[1].total_value


\* the rows of the report that are not complete, in the report's order
ReviewRows == SelectSeq(report[1].rows, LAMBDA r : r.Status # "complete")

\* C22: in the report the complete records and the needs-review records
\* together are all the records, and the reason list of each needs-review
\* record is non-empty and lists 'no account #' exactly when the account
\* number is absent and 'no closing value' exactly when the closing value is
\* absent.
C22_ReviewReasons ==
    report # None =>
        LET rows == report[1].rows
            listed == report[1].needs_review
            Reasons(j) == {listed[j].issues[i] : i \in 1..Len(listed[j].issues)}
        IN  /\ \A k \in 1..Len(rows) : rows[k].Status \in {"complete", "needs review"}
            /\ report[1].success_count
                   = Cardinality({k \in 1..Len(rows) : rows[k].Status = "complete"})
            /\ report[1].success_count + Len(listed) = report[1].processed
            /\ report[1].processed = Len(rows)
            /\ Len(listed) = Len(ReviewRows)
            /\ \A j \in 1..Len(listed) :
                   /\ listed[j].Filename = ReviewRows[j].Filename
                   /\ listed[j].issues # << >>
                   /\ "no account #" \in Reasons(j) <=> ReviewRows[j].AccountNumber = None
                   /\ "no closing value" \in Reasons(j) <=> ReviewRows[j].ClosingValue = None

\* C22 witness: the report lists a record for its missing closing value
\* only, another for both fields, and a third record is complete.
C22_Witness ==
    /\ report # None
    /\ report[1].success_count >= 1
    /\ \E j \in 1..Len(report[1].needs_review) :
           report[1].needs_review[j].issues = <<"no closing value">>
    /\ \E j \in 1..Len(report[1].needs_review) :
           report[1].needs_review[j].issues = <<"no account #", "no closing value">>


-----------------------------------------------------------------------------
(* Claims about the course of process_all_pdfs, checked under Spec *)

\* the input folder does not exist or holds no *.pdf document
NoDocuments == ~folder_exists \/ glob_pdf(folder) = {}

\* C23 as stated: if the folder does not exist or holds no *.pdf document,
\* process_all_pdfs ends before any document is processed, results stays
\* empty and no report is written; and a call ends without having processed
\* every document under these conditions only.
C23_AsClaimed ==
    /\ NoDocuments =>
           /\ results = << >>
           /\ report = None
           /\ pc \in {"idle", "returned"}
    /\ (pc \in {"returned", "raised"} /\ calls >= 1) => NoDocuments


\* the records appended by the call in progress are those of the first
\* idx - 1 documents in ascending filename order, one each, at the end of
\* results
InFilenameOrder ==
    LET n == idx - 1
        base == Len(results) - n
    IN  /\ {pdf_files[k].name : k \in 1..Len(pdf_files)} = PdfNames
        /\ \A k \in 1..(Len(pdf_files) - 1) : StrLess(pdf_files[k].name, pdf_files[k + 1].name)
        /\ n <= Len(pdf_files)
        /\ base >= 0
        /\ \A k \in 1..n : results[base + k].Filename = pdf_files[k].name

\* a step leaves results as it is or appends one record to it
AppendOnly ==
    \/ results' = results
    \/ /\ Len(results') = Len(results) + 1
       /\ SubSeq(results', 1, Len(results)) = results

\* C24: the documents are processed one at a time in ascending filename
\* order, the k-th record a call appends being that of the k-th filename,
\* and results only grows by appending: what it held stays in place
\* unchanged.
C24_AppendOnlyInOrder ==
    /\ [](pc \in {"loop", "saved", "raised"} => InFilenameOrder)
    /\ [][AppendOnly]_vars

\* C24 witness: two of three documents have been processed, the records in
\* ascending filename order, and the loop is about to process the third.
C24_Witness ==
    /\ pc = "loop"
    /\ Len(pdf_files) = 3
    /\ idx = 3
    /\ Len(results) = 2
    /\ StrLess(results[1].Filename, results[2].Filename)
    /\ StrLess(results[2].Filename, pdf_files[3].name)


-----------------------------------------------------------------------------
(* Claims about BOKStatementParser, checked under SpecBOK *)

\* C26 as stated: the workbook written for a folder with at least one BOK
\* statement has a 'Summary' sheet and a 'WFA_Format' sheet, the latter with
\* exactly 10 columns, the account numbers in column C, the closing values
\* in column J and the other columns blank.
C26_AsClaimed ==
    report # None =>
        LET workbook == report[1].workbook
            rows == report[1].rows
        IN  /\ "Summary" \in DOMAIN workbook
            /\ "WFA_Format" \in DOMAIN workbook
            /\ Len(workbook["WFA_Format"]) = Len(rows)
            /\ \A k \in 1..Len(rows) :
                   LET row == workbook["WFA_Format"][k]
                   IN  /\ Len(row) = 10
                       /\ row[3] = rows[k].AccountNumber
                       /\ row[10] = rows[k].ClosingValue
                       /\ \A c \in (1..10) \ {3, 10} : row[c] = None


\* the PDF documents of the folder that carry a BOK signature on an
\* inspected page
BOKNames == {d.name : d \in {f \in glob_pdf(folder) :
                                f.readable /\ \E k \in Inspected(f) : HasSignature(f.pages[k])}}

\* C27 as stated: process_all_pdfs leaves a record exactly for the documents
\* classified as BOK, each with Institution 'BOK Financial'; the processed
\* and the skipped documents together are the documents scanned; and when no
\* document is BOK, results stays empty and no report is written.
C27_AsClaimed ==
    FirstCallEnded =>
        /\ {results[k].Filename : k \in 1..Len(results)} = BOKNames
        /\ Len(results) = Cardinality(BOKNames)
        /\ \A k \in 1..Len(results) : results[k].Institution = "BOK Financial"
        /\ pc # "returned" =>
               Len(results) + (Len(pdf_files) - Len(bok_files)) = Cardinality(PdfNames)
        /\ BOKNames = {} => results = << >> /\ report = None


-----------------------------------------------------------------------------
(* Claims about the pages the classifier reads, checked under SpecDoc *)

\* the text of the page at 0-based index i, absent when the document has no
\* such page
TextAt(doc, i) == IF i < Len(doc.pages) THEN doc.pages[i + 1] ELSE None

\* the four-page document that agrees with doc at the indices 0, 2 and 3 and
\* has no text at index 1
OnlyIndices023(doc) ==
    Doc(doc.name, doc.readable, <<TextAt(doc, 0), None, TextAt(doc, 2), TextAt(doc, 3)>>)

\* C28 as stated: the profile of a document is that of every document that
\* agrees with it at the page indices 0, 2 and 3 (a missing index counting
\* as absent text), whatever the page counts and the other pages; so it is
\* the profile of the four-page document with the same texts at 0, 2 and 3.
C28_AsClaimed ==
    (Out("select_parser") # None /\ input.doc.readable) =>
        Out("select_parser")[1] = select_parser(OnlyIndices023(input.doc))

\* texts a page outside the indices 0, 2 and 3 may carry
OtherTexts == {NoText, EmptyText, BOK_Letterhead, BOK_Collapsed, BOK_RunTogether, WFA_Snapshot}

\* the documents of more than three pages that agree with doc at the
\* indices 0, 2 and 3: any text at index 1, and any or no page at index 4
LongVariants(doc) ==
    {Doc(doc.name, doc.readable,
         <<TextAt(doc, 0), t, TextAt(doc, 2), TextAt(doc, 3)>> \o more) :
        t \in OtherTexts, more \in {<< >>} \cup {<<u>> : u \in OtherTexts}}

\* C28, amended: two documents of more than three pages whose page texts
\* agree at the indices 0, 2 and 3 receive the same profile, whatever their
\* other pages contain; a signature on page index 1 alone leaves such a
\* document with the default profile.
C28_LongDocuments ==
    (Out("select_parser") # None /\ Len(input.doc.pages) > 3) =>
        /\ \A d \in LongVariants(input.doc) :
               select_parser(d) = Out("select_parser")[1]
        /\ (\A i \in {0, 2, 3} : ~HasSignature(TextAt(input.doc, i))) =>
               Out("select_parser")[1] = "WFA"

\* C28 witness: a document of four pages whose only signature is on page
\* index 1 was classified as Wells Fargo Advisors.
C28_Witness ==
    /\ Out("select_parser") = Some("WFA")
    /\ Len(input.doc.pages) = 4
    /\ HasSignature(TextAt(input.doc, 1))
    /\ \A i \in {0, 2, 3} : ~HasSignature(TextAt(input.doc, i))


\* the per-beneficiary sums of the first k groups added up
RECURSIVE SumOfSums(_, _)
SumOfSums(groups, k) ==
    IF k = 0 THEN Zero ELSE fadd(SumOfSums(groups, k - 1), groups[k].sum)

\* the per-beneficiary file counts of the first k groups added up
RECURSIVE SumOfCounts(_, _)
SumOfCounts(groups, k) ==
    IF k = 0 THEN 0 ELSE SumOfCounts(groups, k - 1) + groups[k].count

\* C29 as stated: in the BOK report the per-beneficiary groups partition the
\* records: their sums add up to the overall total, and their file counts
\* add up to the number of processed records, a record without closing value
\* counting as a file of its group.
C29_AsClaimed ==
    report # None =>
        LET groups == report[1].beneficiary_summary
        IN  /\ SumOfSums(groups, Len(groups)) = report[1].total_value
            /\ SumOfCounts(groups, Len(groups)) = report[1].processed


-----------------------------------------------------------------------------
(* Claims about repeated calls on one instance, checked under Spec *)

\* the totals a report shows
Totals(r) == <<r.processed, r.total_value, r.wfa_total, r.bok_total, r.wfa_count, r.bok_count>>

\* C30 as stated: after any number of process_all_pdfs calls on one instance
\* over an unchanged folder of N documents, results holds exactly N records,
\* one per document, no filename twice, and the totals the second call
\* reports are those of the first.
C30_AsClaimed ==
    /\ [](pc = "saved" =>
            /\ Len(results) = Cardinality(PdfNames)
            /\ \A n \in PdfNames :
                  Cardinality({k \in 1..Len(results) : results[k].Filename = n}) = 1)
    /\ [][(report # None /\ report' # None) => Totals(report'[1]) = Totals(report[1])]_vars

====
